---------------------------- MODULE Spec2Model ----------------------------
(***************************************************************************)
(* MetricsReporter: the temporal replay of status-change events at weekly  *)
(* checkpoints (Calculator.calculate of the Jira and ClearQuest             *)
(* calculators), the checkpoint date series (utilities.get_historical_dates)*)
(* and the snapshot reducers (_get_severity_data, _get_status_data).        *)
(*                                                                         *)
(* Time.  A datetime is an integer number of ticks since midnight of the   *)
(* day whose proleptic ordinal is EpochOrdinal; a day has TicksPerDay      *)
(* ticks.  A date (datetime.date()) is a day number relative to the same   *)
(* epoch.  A timedelta is a number of ticks.                               *)
(*                                                                         *)
(* Strings.  A status is a sequence of tokens, each token a word (without  *)
(* whitespace) or one whitespace character; no two words are adjacent.     *)
(* Keys, projects and priorities are atomic strings; Python's None is the  *)
(* sentinel None.                                                          *)
(***************************************************************************)
EXTENDS Integers, Sequences, FiniteSets, TLC

-----------------------------------------------------------------------------
(* Bounds of the model *)

\* ticks per day (granularity of the time of day)
TicksPerDay == 2
\* proleptic ordinal of day 0 (738890 = 2024-01-05, a Friday)
EpochOrdinal == 738890
\* event timestamps of the replay inputs range over 0..MaxStamp
MaxStamp == 2
\* total number of history events in one replay input population
MaxEvents == 2
\* "today" of a replay run lies in week 0..MaxWeeks
MaxWeeks == 1
\* days of the date-series inputs range over 0..MaxDay
MaxDay == 16
\* an accumulator of the combine inputs holds at most MaxItems items
MaxItems == 2
\* and a sum of at most MaxAgeSum ticks
MaxAgeSum == 2

(* Program constants *)

\* timedelta(days=7): the interval of the checkpoint series
DaysPerWeek == 7
\* Calculator.extraction_day (4 = Friday)
DefaultExtractionDay == 4
\* SEPTACalculator.extraction_day (5 = Saturday)
SEPTAExtractionDay == 5

None == "<None>"

\* None where a dictionary is expected
NoDict == [x \in {None} |-> None]

-----------------------------------------------------------------------------
VARIABLES
  calc,            \* which calculator runs: "jira" | "scr" | "dcr" | "compliance"
  kwargs,          \* the age_data keyword of the call: "absent" | "True" | "False"
  extraction_day,  \* self.extraction_day
  today,           \* datetime.today()
  data,            \* the issue population passed to calculate, in order
  idx,             \* position of the population loop (next issue to queue)
  queue,           \* the heap of event tuples
  earliest,        \* queue[0][0] when the replay starts
  dates,           \* the checkpoint series being iterated
  di,              \* position in dates (the checkpoint being processed)
  current_state,   \* key -> current parameters
  severity_data,   \* OrderedDict date -> severity snapshot
  status_data,     \* OrderedDict date -> status snapshot
  age_map,         \* the age map being accumulated / returned
  args,            \* the arguments of a function called on its own
  ret,             \* the value such a function returns
  files,           \* the tables of the _produce_age_file calls that returned
  pc               \* position of the run

vars == <<calc, kwargs, extraction_day, today, data, idx, queue, earliest,
          dates, di, current_state, severity_data, status_data, age_map, args,
          ret, files, pc>>

-----------------------------------------------------------------------------
(* datetime arithmetic *)

\* datetime.date()
DateOf(dt) == dt \div TicksPerDay

\* datetime of midnight of a date
Midnight(d) == d * TicksPerDay

\* timedelta(days=n)
Days(n) == n * TicksPerDay

\* date.weekday(): 0 = Monday .. 6 = Sunday
Weekday(d) == (EpochOrdinal + d + 6) % 7

-----------------------------------------------------------------------------
(* utilities.py: the checkpoint date series *)

\* mutant: the most recent extraction day on or before the date
get_extraction_date_before(date, extractionday) ==
  LET day  == Weekday(DateOf(date))
      diff == IF day < extractionday THEN extractionday - day - DaysPerWeek
                                     ELSE extractionday - day
      moved == date + Days(diff)
  IN  Midnight(DateOf(moved))

get_extraction_date(date, extractionday) ==
  LET day  == Weekday(DateOf(date))
      diff == IF day > extractionday THEN extractionday - day + DaysPerWeek
                                     ELSE extractionday - day
      moved == date + Days(diff)
  IN  Midnight(DateOf(moved))

RECURSIVE _append_historical_date(_, _)

\* mutant: the series starts at the earliest date itself
_append_from_earliest(earliestdate, currdate) ==
  LET prevdate == currdate - Days(DaysPerWeek)
  IN  IF DateOf(prevdate) < DateOf(earliestdate)
        THEN <<earliestdate>>
        ELSE Append(_append_historical_date(earliestdate, prevdate), currdate)

\* mutant: the recursion stops one week early when a date equals the earliest
_append_stop_at_equal(earliestdate, currdate) ==
  LET prevdate == currdate - Days(DaysPerWeek)
  IN  IF DateOf(prevdate) <= DateOf(earliestdate)
        THEN <<currdate>>
        ELSE Append(_append_historical_date(earliestdate, prevdate), currdate)

_append_historical_date(earliestdate, currdate) ==
  LET prevdate == currdate - Days(DaysPerWeek)
  IN  IF DateOf(prevdate) < DateOf(earliestdate)
        THEN <<currdate>>
        ELSE Append(_append_historical_date(earliestdate, prevdate), currdate)

get_historical_dates(earliest_, extractionday, hastime) ==
  LET date   == get_extraction_date(today, extractionday)
      dates_ == _append_historical_date(earliest_, date)
  IN  IF hastime THEN dates_
                 ELSE [j \in 1..Len(dates_) |-> DateOf(dates_[j])]

-----------------------------------------------------------------------------
(* Python values: truth, strings and their order *)

\* the empty string / None of a status field
NoStatus == <<>>

\* bool(x) of a None-or-string value
Truthy(x) == x # None /\ x # ""

\* every atomic string the model compares, in Python's string order
SortedStrings ==
  <<"", "Blocker", "Closed", "Compliance", "Critical", "Deferred", "FAT-B",
    "GUI", "HW Board", "Hardware", "K1", "K2", "Major", "Minor", "New",
    "OTHER", "Open", "PACK-151", "PACK-9", "PACK-9, PACK-151", "PILOT",
    "PROJ", "Resolved", "SEPTA", "Security", "Security Audit", "Trivial",
    "Urgent">>

StrRank(s) == CHOOSE r \in 1..Len(SortedStrings) : SortedStrings[r] = s

\* a < b on strings
StrLess(a, b) == StrRank(a) < StrRank(b)

\* a < b on None-or-string values: None is smaller than every string
NoneOrStrLess(a, b) ==
  IF a = None THEN b # None
  ELSE IF b = None THEN FALSE
  ELSE StrLess(a, b)

\* the whitespace characters of str.split() and str.strip(), in the order of
\* their codes: tab, line feed, vertical tab, form feed, carriage return,
\* space
SpaceOrder == <<"\t", "\n", "", "\f", "\r", " ">>

SpaceRank(t) == CHOOSE r \in 1..Len(SpaceOrder) : SpaceOrder[r] = t

\* whitespace tokens of a status
IsSpace(t) == \E r \in 1..Len(SpaceOrder) : SpaceOrder[r] = t

IsWord(t) == ~IsSpace(t)

\* a < b on statuses, token by token: two whitespace characters compare by
\* their codes and a whitespace character is smaller than the first
\* character of every word
RECURSIVE StatusLess(_, _)
StatusLess(a, b) ==
  IF b = <<>> THEN FALSE
  ELSE IF a = <<>> THEN TRUE
  ELSE IF Head(a) = Head(b) THEN StatusLess(Tail(a), Tail(b))
  ELSE IF IsSpace(Head(a))
         THEN ~IsSpace(Head(b)) \/ SpaceRank(Head(a)) < SpaceRank(Head(b))
  ELSE IF IsSpace(Head(b)) THEN FALSE
  ELSE StrLess(Head(a), Head(b))

\* field positions of a queue entry
\* (date, proj, key, status, priority[, comps, links, pack])
E_DATE == 1
E_PROJ == 2
E_KEY == 3
E_STATUS == 4
E_PRIORITY == 5

\* a < b on two queue entries of the same calculator: Python's tuple order
TupleLess(a, b) ==
  IF a[E_DATE] # b[E_DATE] THEN a[E_DATE] < b[E_DATE]
  ELSE IF a[E_PROJ] # b[E_PROJ] THEN StrLess(a[E_PROJ], b[E_PROJ])
  ELSE IF a[E_KEY] # b[E_KEY] THEN StrLess(a[E_KEY], b[E_KEY])
  ELSE IF a[E_STATUS] # b[E_STATUS] THEN StatusLess(a[E_STATUS], b[E_STATUS])
  ELSE IF a[E_PRIORITY] # b[E_PRIORITY]
         THEN NoneOrStrLess(a[E_PRIORITY], b[E_PRIORITY])
  ELSE IF Len(a) = 5 THEN FALSE
  ELSE IF a[6] # b[6] THEN StrLess(a[6], b[6])
  ELSE IF a[7] # b[7] THEN StrLess(a[7], b[7])
  ELSE IF a[8] # b[8] THEN NoneOrStrLess(a[8], b[8])
  ELSE FALSE

-----------------------------------------------------------------------------
(* heapq on a list of entries; positions are 0-based as in heapq *)

At(heap, pos) == heap[pos + 1]

Put(heap, pos, item) == [heap EXCEPT ![pos + 1] = item]

RECURSIVE SiftDownLoop(_, _, _, _)
SiftDownLoop(heap, startpos, pos, newitem) ==
  IF pos > startpos
    THEN LET parentpos == (pos - 1) \div 2
             parent    == At(heap, parentpos)
         IN  IF TupleLess(newitem, parent)
               THEN SiftDownLoop(Put(heap, pos, parent), startpos, parentpos, newitem)
               ELSE Put(heap, pos, newitem)
    ELSE Put(heap, pos, newitem)

_siftdown(heap, startpos, pos) == SiftDownLoop(heap, startpos, pos, At(heap, pos))

RECURSIVE SiftUpLoop(_, _, _, _)
SiftUpLoop(heap, startpos, pos, newitem) ==
  LET endpos   == Len(heap)
      childpos == 2 * pos + 1
      rightpos == childpos + 1
  IN  IF childpos < endpos
        THEN LET c == IF rightpos < endpos
                         /\ ~TupleLess(At(heap, childpos), At(heap, rightpos))
                        THEN rightpos ELSE childpos
             IN  SiftUpLoop(Put(heap, pos, At(heap, c)), startpos, c, newitem)
        ELSE _siftdown(Put(heap, pos, newitem), startpos, pos)

_siftup(heap, pos) == SiftUpLoop(heap, pos, pos, At(heap, pos))

heappush(heap, item) == _siftdown(Append(heap, item), 0, Len(heap))

\* heappop: the item returned and the heap left
heappop(heap) ==
  LET lastelt == heap[Len(heap)]
      rest    == SubSeq(heap, 1, Len(heap) - 1)
  IN  IF rest # <<>>
        THEN [item |-> rest[1], heap |-> _siftup(Put(rest, 0, lastelt), 0)]
        ELSE [item |-> lastelt, heap |-> rest]

-----------------------------------------------------------------------------
(* Calculator configuration *)

TOTAL == "Total"
OPEN == "Open"
CLOSED == "Closed"
OVERALL == "Overall"

\* self.project: the argument of the constructor, which SEPTACalculator and
\* ComplianceCalculator fix
Project ==
  CASE calc = "septa" -> "SEPTA"
    [] calc = "compliance" -> "Compliance"
    [] OTHER -> "PROJ"

\* the project key that the records of the accessor carry
RecordProject == "PROJ"

\* issue types
CR == "Change Request"
DEFECT == "Defect"
TASK == "Task"
\* JiraGTReport.issue_types
issue_types == <<CR, DEFECT, TASK>>
PROD == "Production"
DEV == "Development"
ENG_NOTICE == "Engineering Notice"
ENG_CHANGE == "Engineering Change Notice"
\* the issue type ComplianceCalculator gives the constructor
COMPLIANCE == "Compliance"

\* the calculators that are a DCRCalculator, by the issue type given to the
\* constructor
DCRCalculators == {"dcr", "dcr_notice", "dcr_other"}

\* the calculators that are an RRCalculator
RRCalculators == {"rr_dev", "rr_prod", "rr_other"}

\* self.issuetype
issuetype ==
  CASE calc = "dcr" -> ENG_CHANGE
    [] calc = "dcr_notice" -> ENG_NOTICE
    [] calc = "rr_dev" -> DEV
    [] calc = "rr_prod" -> PROD
    [] calc = "compliance" -> COMPLIANCE
    [] OTHER -> DEFECT

\* Calculator.priority_list; DCRs have no priority data
priority_list ==
  IF calc \in DCRCalculators \cup RRCalculators THEN <<>>
  ELSE <<"Blocker", "Critical", "Major", "Minor", "Trivial">>

\* ComplianceCalculator.project_list: the projects the query returns
project_list == <<RecordProject>>

\* a status of two words
W2(a, b) == <<a, " ", b>>

W3(a, b, c) == <<a, " ", b, " ", c>>

\* JiraGTCalculator.status_list
status_list ==
  << <<"New">>,
     <<"Approved">>, <<"Open">>, <<"Reopened">>, <<"Deferred">>, W2("In", "Progress"),
     W2("Change", "Ready"), W2("Change", "Required"), W2("In", "Review"),
     W2("Pending", "Approval"),
     W2("In", "Dev"), W2("In", "Analysis"), W2("Dev", "Lead"), W3("Dev", "Lead", "Review"),
     W2("Build", "Ready"), W2("Test", "Ready"), W3("Passed", "to", "Test"),
     W2("Build", "Pending"),
     W3("Test", "Build", "Pending"), <<"Deployed">>, W3("Deployed", "to", "Test"),
     W2("Smoke", "Test"),
     W2("In", "Test"), W3("Test", "Defects", "Pending"), W3("Test", "Lead", "Review"),
     W3("Passed", "to", "Prod"), W3("Prod", "Build", "Pending"),
     W3("Prod", "Defects", "Pending"),
     <<"Resolved">>,
     <<"Closed">> >>

\* status_list[lo:hi] (0-based, hi excluded)
Slice(lst, lo, hi) == SubSeq(lst, lo + 1, hi)

\* JiraGTCalculator._set_status_group_map: group -> statuses, in order
JiraStatusMap ==
  << [group |-> "New",      statuses |-> <<status_list[1]>>],
     [group |-> "Open",     statuses |-> Slice(status_list, 1, 10)],
     [group |-> "In Dev",   statuses |-> Slice(status_list, 10, 14)],
     [group |-> "In Test",  statuses |-> Slice(status_list, 14, 25)],
     [group |-> "In Prod",  statuses |-> Slice(status_list, 25, 28)],
     [group |-> "Resolved", statuses |-> <<status_list[29]>>],
     [group |-> "Closed",   statuses |-> <<status_list[30]>>] >>

\* SCRCalculator.get_status_group_map
SCRStatusMap ==
  << [group |-> "New",  statuses |-> << <<"New">> >>],
     [group |-> "Open", statuses |->
        << <<"Assigned">>, <<"Open">>, <<"Wait">>, <<"Approved">>, <<"Resolved">>,
           <<"Verified">>, <<"Merged">>, <<"Postponed">>, <<"Duplicate">> >>],
     [group |-> "Document Impacted", statuses |-> << W2("Document", "Impacted") >>],
     [group |-> "In Test", statuses |->
        << <<"Baselined">>, W2("System", "Tested"), W3("Ready", "To", "Field"),
           <<"Fielded">> >>],
     [group |-> "SE Reviewed", statuses |-> << W2("SE", "Reviewed"), W2("SE", "Approved") >>],
     [group |-> "Closed", statuses |-> << <<"Closed">> >>] >>

\* DCRCalculator.get_status_group_map(ENG_CHANGE)
DCRStatusMap ==
  << [group |-> "Submitted", statuses |-> << <<"Submitted">> >>],
     [group |-> "In Review", statuses |->
        << W2("In", "Review"), W2("Review", "Complete") >>],
     [group |-> "Ready For Release", statuses |-> << W3("Ready", "For", "Release") >>],
     [group |-> "Void", statuses |-> << <<"Void">> >>],
     [group |-> "Closed", statuses |-> << <<"Closed">> >>] >>

\* DCRCalculator.get_status_group_map(ENG_NOTICE)
DCRNoticeStatusMap ==
  << [group |-> "Submitted", statuses |-> << <<"Submitted">> >>],
     [group |-> "ID Generated", statuses |-> << W2("ID", "Generated") >>],
     [group |-> "In Review", statuses |->
        << W3("Ready", "For", "Review"), W2("In", "Review"),
           W2("Review", "Complete") >>],
     [group |-> "Ready For Release", statuses |-> << W3("Ready", "For", "Release") >>],
     [group |-> "Void", statuses |-> << <<"Void">> >>],
     [group |-> "Closed", statuses |-> << <<"Closed">> >>] >>

\* DCRCalculator.get_status_group_map
DCR_get_status_group_map(it) ==
  IF it = ENG_CHANGE THEN DCRStatusMap
  ELSE IF it = ENG_NOTICE THEN DCRNoticeStatusMap
  ELSE <<>>

\* RRCalculator.get_status_group_map(DEV)
RRDevStatusMap ==
  << [group |-> "Submitted", statuses |-> << <<"Submitted">> >>],
     [group |-> "Dev Release Approved", statuses |->
        << W3("Dev", "Release", "Approved") >>],
     [group |-> "In Build", statuses |->
        << W3("Waiting", "To", "Build"), W2("Build", "Failed"),
           W2("Build", "Approved") >>],
     [group |-> "In Engineering", statuses |->
        << W2("Engineering", "Test"), W2("Engineering", "Failed") >>],
     [group |-> "In Release", statuses |->
        << W3("Ready", "For", "Release"), W3("Dev", "Release", "Failed"),
           W3("Dev", "Release", "Passed") >>],
     [group |-> "Closed", statuses |-> << <<"Closed">> >>] >>

\* RRCalculator.get_status_group_map(PROD)
RRProdStatusMap ==
  << [group |-> "Submitted", statuses |-> << <<"Submitted">> >>],
     [group |-> "Program Approved", statuses |-> << W2("Program", "Approved") >>],
     [group |-> "In Review", statuses |->
        << W2("Engg", "Reviewed"), W2("CCB", "Approved"), W2("CCB", "Rejected"),
           W2("Patch", "CM"), W2("Patch", "Reviewed") >>],
     [group |-> "In Build", statuses |->
        << W3("Waiting", "To", "Build"), W2("Build", "Failed"),
           W2("Build", "Approved") >>],
     [group |-> "In Engineering", statuses |->
        << W2("Engineering", "Test"), W2("Engineering", "Failed"),
           W3("Ready", "For", "Release") >>],
     [group |-> "In System Testing", statuses |->
        << W2("System", "Testing"), W3("System", "Test", "Failed") >>],
     [group |-> "In Fielding", statuses |->
        << W3("Ready", "To", "Field"), <<"Field", " ", "Test", " ", "In", " ", "Progress">>,
           W3("Field", "Test", "Failed"), <<"Fielded">> >>],
     [group |-> "SE Approved", statuses |->
        << W2("SE", "Reviewed"), W2("SE", "Approved") >>],
     [group |-> "Cancelled", statuses |->
        << W2("Release", "Withdrawn"), <<"Cancelled">> >>],
     [group |-> "Closed", statuses |-> << <<"Closed">> >>] >>

\* RRCalculator.get_status_group_map
RR_get_status_group_map(it) ==
  IF it = DEV THEN RRDevStatusMap
  ELSE IF it = PROD THEN RRProdStatusMap
  ELSE <<>>

\* SEPTACalculator._set_status_group_map
SEPTAStatusMap ==
  << [group |-> "In Dev", statuses |->
        << <<"New">>, W2("In", "Dev"), W2("In", "Analysis"),
           W3("Dev", "Lead", "Review"), W3("Test", "Defects", "Pending"),
           W3("Prod", "Defects", "Pending") >>],
     [group |-> "Passed to Test", statuses |-> << W3("Passed", "to", "Test") >>],
     [group |-> "Test Build Pending", statuses |-> << W3("Test", "Build", "Pending") >>],
     [group |-> "In Test", statuses |->
        << W3("Deployed", "to", "Test"), W2("In", "Test"),
           W3("Test", "Lead", "Review") >>],
     [group |-> "Closed", statuses |->
        << W3("Passed", "to", "Prod"), W3("Prod", "Build", "Pending"),
           <<"Resolved">>, <<"Closed">> >>] >>

\* self.status_map of the running calculator (ComplianceCalculator is a
\* JiraGTCalculator); a calculator of the base classes keeps the empty map
\* of Calculator.__init__
status_map ==
  IF calc \in {"jira", "compliance"} THEN JiraStatusMap
  ELSE IF calc \in {"scr", "none"} THEN SCRStatusMap
  ELSE IF calc \in DCRCalculators THEN DCR_get_status_group_map(issuetype)
  ELSE IF calc \in RRCalculators THEN RR_get_status_group_map(issuetype)
  ELSE IF calc = "septa" THEN SEPTAStatusMap
  ELSE <<>>

\* status_map.keys()
GroupNames(smap) == [j \in 1..Len(smap) |-> smap[j].group]

Range(seq) == {seq[j] : j \in 1..Len(seq)}

\* status_map[group]
GroupStatuses(smap, group) ==
  LET j == CHOOSE j \in 1..Len(smap) : smap[j].group = group
  IN  smap[j].statuses

-----------------------------------------------------------------------------
(* Calculator._get_status_group *)

\* status.split()
Split(status) == SelectSeq(status, IsWord)

\* ' '.join(words)
RECURSIVE Join(_)
Join(words) ==
  IF Len(words) <= 1 THEN words
  ELSE <<Head(words), " ">> \o Join(Tail(words))

RECURSIVE LStrip(_)
LStrip(s) == IF s # <<>> /\ IsSpace(Head(s)) THEN LStrip(Tail(s)) ELSE s

RECURSIVE RStrip(_)
RStrip(s) ==
  IF s # <<>> /\ IsSpace(s[Len(s)]) THEN RStrip(SubSeq(s, 1, Len(s) - 1)) ELSE s

\* str.strip()
Strip(s) == RStrip(LStrip(s))

RECURSIVE FirstGroup(_, _, _)
FirstGroup(smap, status, j) ==
  IF j > Len(smap) THEN None
  ELSE IF status \in Range(smap[j].statuses) THEN smap[j].group
  ELSE FirstGroup(smap, status, j + 1)

\* mutant: the status is stripped, its inner whitespace is kept
_get_status_group_stripped(status) == FirstGroup(status_map, Strip(status), 1)

_get_status_group(status) == FirstGroup(status_map, Strip(Join(Split(status))), 1)

\* sep.join(lst) on a list of statuses
RECURSIVE JoinWith(_, _)
JoinWith(sep, lst) ==
  IF lst = <<>> THEN <<>>
  ELSE IF Len(lst) = 1 THEN lst[1]
  ELSE lst[1] \o sep \o JoinWith(sep, Tail(lst))

\* the description get_status_desc builds for one group (every status list of
\* the calculators holds a status); the group name is one token
StatusDesc(group, sl) ==
  IF Len(sl) = 1 THEN sl[1]
  ELSE IF Len(sl) = 2
    THEN <<group, " ", "includes", " ">> \o sl[1] \o <<" ", "&", " ">> \o sl[2]
  ELSE <<group, " ", "includes", " ">>
         \o JoinWith(<<",", " ">>, SubSeq(sl, 1, Len(sl) - 1))
         \o <<" ", "&", " ">> \o sl[Len(sl)]

\* Calculator.get_status_desc: the list of (status group, description)
get_status_desc ==
  [j \in 1..Len(status_map) |->
     <<status_map[j].group, StatusDesc(status_map[j].group, status_map[j].statuses)>>]

-----------------------------------------------------------------------------
(* Dictionaries.  A dict is a function on its keys; an OrderedDict whose     *)
(* order matters is a sequence of [key, val] entries in insertion order.     *)

\* constants.py: names of the data parameters
PRIORITY == "Priority"
STATUS == "Status"
CREATED == "Creation Date"
COMPS == "Components"
LINKS == "Linked Issues"
PACK == "Pack"
HIST == "Change History"
OLD == "Old Status"
\* NEW of constants.py (NEW is a reserved word)
NEW_ == "New Status"
TRANS == "Status Transition Date"
PROJECT == "Project"
SUBMIT_DATE == "Submittal Date"

\* d.get(k, default)
Get(d, k, default) == IF k \in DOMAIN d THEN d[k] ELSE default

\* d[k] = v on a dict
DictSet(d, k, v) == [x \in (DOMAIN d) \cup {k} |-> IF x = k THEN v ELSE d[x]]

\* mutant: every entry refers to the one table that is stored last
ODSet_shared(od, k, v) ==
  [j \in 1..(Len(od) + 1) |->
     [key |-> IF j <= Len(od) THEN od[j].key ELSE k, val |-> v]]

\* od[k] = v on an OrderedDict: overwrite in place, or append
ODSet(od, k, v) ==
  IF \E j \in 1..Len(od) : od[j].key = k
    THEN [j \in 1..Len(od) |-> IF od[j].key = k THEN [key |-> k, val |-> v] ELSE od[j]]
    ELSE Append(od, [key |-> k, val |-> v])

ODKeys(od) == [j \in 1..Len(od) |-> od[j].key]

\* od[k], for a key the OrderedDict holds
ODGet(od, k) == od[CHOOSE j \in 1..Len(od) : od[j].key = k].val

\* the issue keys, in the order of the data argument (an OrderedDict)
KeyOrder == <<"K1", "K2">>

\* the issue keys in the iteration order of current_state, a plain dict:
\* the order of the keys' hash slots under CPython 2.7, whatever the order
\* of insertion
HashOrder == <<"K2", "K1">>

\* dict.values() of a plain dict keyed by issue keys
Values(d) ==
  LET ks == SelectSeq(HashOrder, LAMBDA k : k \in DOMAIN d)
  IN  [j \in 1..Len(ks) |-> d[ks[j]]]

-----------------------------------------------------------------------------
(* Calculator._get_severity_data and Calculator._get_status_data.  A reducer *)
(* yields [err, val]: err when a lookup raises KeyError.                     *)

SeverityTypes == {TOTAL, CLOSED, OPEN}

SeverityColumns == Range(priority_list) \cup {TOTAL}

ZeroSeverity == [x \in SeverityTypes |-> [p \in SeverityColumns |-> 0]]

Inc(table, row, col) == [table EXCEPT ![row][col] = @ + 1]

HasGroup(smap, group) == \E j \in 1..Len(smap) : smap[j].group = group

\* the closure test of the severity reducer: "status in
\* self.status_map[CLOSED]", "status == CLOSED" in ComplianceCalculator
IsClosedStatus(status) ==
  IF calc = "compliance" THEN status = <<CLOSED>>
  ELSE status \in Range(GroupStatuses(status_map, CLOSED))

\* one pass of "for p in [priority, TOTAL]"
SeverityCount(acc, status, p) ==
  IF acc.err THEN acc
  ELSE IF (calc # "compliance" /\ ~HasGroup(status_map, CLOSED))
          \/ p \notin SeverityColumns
    THEN [err |-> TRUE, val |-> acc.val]
  ELSE LET row == IF IsClosedStatus(status) THEN CLOSED ELSE OPEN
       IN  [err |-> FALSE, val |-> Inc(Inc(acc.val, row, p), TOTAL, p)]

\* mutant: the Total column counts every issue, with or without a priority
SeverityIssue_total_unguarded(acc, param) ==
  IF Truthy(param[PRIORITY])
    THEN SeverityCount(SeverityCount(acc, param[STATUS], param[PRIORITY]),
                       param[STATUS], TOTAL)
    ELSE SeverityCount(acc, param[STATUS], TOTAL)

\* mutant: closure is tested the wrong way round
SeverityIssue_swapped(acc, param) ==
  IF Truthy(param[PRIORITY]) /\ ~acc.err
    THEN LET row == IF param[STATUS] \in Range(GroupStatuses(status_map, CLOSED))
                      THEN OPEN ELSE CLOSED
             one == Inc(Inc(acc.val, row, param[PRIORITY]), TOTAL, param[PRIORITY])
         IN  [err |-> FALSE, val |-> Inc(Inc(one, row, TOTAL), TOTAL, TOTAL)]
    ELSE acc

\* the body of the loop over the issues
SeverityIssue(acc, param) ==
  IF Truthy(param[PRIORITY])
    THEN SeverityCount(SeverityCount(acc, param[STATUS], param[PRIORITY]),
                       param[STATUS], TOTAL)
    ELSE acc

RECURSIVE SeverityFold(_, _)
SeverityFold(acc, params) ==
  IF params = <<>> THEN acc
  ELSE SeverityFold(SeverityIssue(acc, Head(params)), Tail(params))

_get_severity_data(cs) ==
  SeverityFold([err |-> FALSE, val |-> ZeroSeverity], Values(cs))

StatusColumns == Range(GroupNames(status_map)) \cup {TOTAL}

\* data_types: [TOTAL], [TOTAL] + self.project_list in ComplianceCalculator
StatusRows ==
  {TOTAL} \cup (IF calc = "compliance" THEN Range(project_list) ELSE {})

ZeroStatus == [x \in StatusRows |-> [g \in StatusColumns |-> 0]]

\* the loop body with the Total cell incremented outside 'if (status)'
StatusIssue_total_unmapped(acc, param) ==
  LET group == _get_status_group(param[STATUS])
  IN  IF acc.err THEN acc
      ELSE IF ~Truthy(group) THEN [err |-> FALSE, val |-> Inc(acc.val, TOTAL, TOTAL)]
      ELSE [err |-> FALSE, val |-> Inc(Inc(acc.val, TOTAL, group), TOTAL, TOTAL)]

\* mutant: the cell of the group is incremented, the Total cell is not
StatusIssue_group_only(acc, param) ==
  LET group == _get_status_group(param[STATUS])
  IN  IF acc.err \/ ~Truthy(group) THEN acc
      ELSE [err |-> FALSE, val |-> Inc(acc.val, TOTAL, group)]

\* the body of the loop over the issues
StatusIssue(acc, param) ==
  LET group   == _get_status_group(param[STATUS])
      project == param[PROJECT]
  IN  IF acc.err \/ ~Truthy(group) THEN acc
      ELSE IF calc = "compliance"
        THEN IF project \notin StatusRows
               THEN [err |-> TRUE, val |-> acc.val]
               ELSE [err |-> FALSE,
                     val |-> Inc(Inc(Inc(Inc(acc.val, project, group), TOTAL, group),
                                     project, TOTAL), TOTAL, TOTAL)]
        ELSE [err |-> FALSE, val |-> Inc(Inc(acc.val, TOTAL, group), TOTAL, TOTAL)]

RECURSIVE StatusFold(_, _)
StatusFold(acc, params) ==
  IF params = <<>> THEN acc
  ELSE StatusFold(StatusIssue(acc, Head(params)), Tail(params))

_get_status_data(cs) ==
  StatusFold([err |-> FALSE, val |-> ZeroStatus], Values(cs))

-----------------------------------------------------------------------------
(* SEPTACalculator._get_severity_data and SEPTACalculator._get_status_data  *)

FAT_A == "FAT-A"
FAT_B == "FAT-B"
FAT_1A == "Fat-1A"
FAT_1B == "Fat-1B"
FAT_1B_HI == "Hi Priority Fat-1B"
PILOT == "Pilot"
PILOT_HI == "Hi Priority Pilot"

\* comps.lower(), on the components of the snapshots
Lower(comps) ==
  CASE comps = "" -> ""
    [] comps = "GUI" -> "gui"
    [] comps = "Hardware" -> "hardware"
    [] comps = "HW Board" -> "hw board"
    [] comps = "Security" -> "security"
    [] comps = "Security Audit" -> "security audit"

\* sub in text, on the texts of the snapshots
In(sub, text) ==
  <<sub, text>> \in {<<"hardware", "hardware">>, <<"hw", "hw board">>,
                     <<"PACK-151", "PACK-151">>, <<"PACK-151", "PACK-9, PACK-151">>}

\* the test under "Skips hardware"
NotHardware(comps) ==
  comps = None \/ (~In("hardware", Lower(comps)) /\ ~In("hw", Lower(comps))
                    /\ "security" # Lower(comps))

\* '%s (%s)' % (original_type, sub_type)
SubType(original_type, sub_type) == original_type \o " (" \o sub_type \o ")"

SEPTASeveritySubTypes == <<FAT_A, FAT_B, PILOT, PILOT_HI>>

SEPTASeverityTypes ==
  SeverityTypes \cup {SubType(t, sub) : t \in SeverityTypes,
                                        sub \in Range(SEPTASeveritySubTypes)}

\* cond of the pair (cond, data_type) of the severity reducer
SEPTASeverityCond(param, data_type) ==
  \/ data_type = FAT_A /\ In("PACK-151", param[LINKS])
  \/ data_type = FAT_B /\ FAT_B = param[PACK]
  \/ data_type = PILOT /\ "PILOT" = param[PACK]
  \/ data_type = PILOT_HI /\ "PILOT" = param[PACK]
       /\ param[PRIORITY] \notin {"Minor", "Trivial"}

\* the loop over the (cond, data_type) pairs for one p
RECURSIVE SEPTASeveritySubCount(_, _, _, _, _)
SEPTASeveritySubCount(val, param, row, p, data_types) ==
  IF data_types = <<>> THEN val
  ELSE LET data_type == Head(data_types)
           next == IF SEPTASeverityCond(param, data_type)
                     THEN Inc(Inc(val, SubType(row, data_type), p),
                              SubType(TOTAL, data_type), p)
                     ELSE val
       IN  SEPTASeveritySubCount(next, param, row, p, Tail(data_types))

\* one pass of "for p in [priority, TOTAL]"
SEPTASeverityCount(acc, param, p) ==
  IF acc.err THEN acc
  ELSE IF p \notin SeverityColumns THEN [err |-> TRUE, val |-> acc.val]
  ELSE LET row == IF param[STATUS] \in Range(GroupStatuses(status_map, CLOSED))
                    THEN CLOSED ELSE OPEN
       IN  [err |-> FALSE,
            val |-> SEPTASeveritySubCount(Inc(Inc(acc.val, row, p), TOTAL, p),
                                          param, row, p, SEPTASeveritySubTypes)]

\* mutant: the count goes to the priority column alone
SEPTASeverityIssue_priority_only(acc, param) ==
  IF Truthy(param[PRIORITY]) /\ NotHardware(param[COMPS])
    THEN SEPTASeverityCount(acc, param, param[PRIORITY])
    ELSE acc

\* the body of the loop over the issues
SEPTASeverityIssue(acc, param) ==
  IF Truthy(param[PRIORITY]) /\ NotHardware(param[COMPS])
    THEN SEPTASeverityCount(SEPTASeverityCount(acc, param, param[PRIORITY]),
                            param, TOTAL)
    ELSE acc

RECURSIVE SEPTASeverityFold(_, _)
SEPTASeverityFold(acc, params) ==
  IF params = <<>> THEN acc
  ELSE SEPTASeverityFold(SEPTASeverityIssue(acc, Head(params)), Tail(params))

\* "Removes Minor and Trivial categories from Hi Priority"
SEPTARemoveLow(val) ==
  [x \in DOMAIN val |->
     IF x \in {SubType(t, PILOT_HI) : t \in SeverityTypes}
       THEN [p \in DOMAIN val[x] \ {"Minor", "Trivial"} |-> val[x][p]]
       ELSE val[x]]

SEPTA_get_severity_data(cs) ==
  LET r == SEPTASeverityFold(
             [err |-> FALSE,
              val |-> [x \in SEPTASeverityTypes |-> [p \in SeverityColumns |-> 0]]],
             Values(cs))
  IN  IF r.err THEN r ELSE [err |-> FALSE, val |-> SEPTARemoveLow(r.val)]

SEPTAStatusTypes == <<FAT_1A, FAT_1B, FAT_1B_HI, PILOT, PILOT_HI>>

\* cond of the pair (cond, data_type) of the status reducer
SEPTAStatusCond(param, data_type) ==
  \/ data_type = FAT_1A /\ In("PACK-151", param[LINKS])
  \/ data_type = FAT_1B /\ "FAT-B" = param[PACK]
  \/ data_type = FAT_1B_HI /\ "FAT-B" = param[PACK]
       /\ param[PRIORITY] \notin {"Minor", "Trivial"}
  \/ data_type = PILOT /\ "PILOT" = param[PACK]
  \/ data_type = PILOT_HI /\ "PILOT" = param[PACK]
       /\ param[PRIORITY] \notin {"Minor", "Trivial"}

\* the loop over the (cond, data_type) pairs for one s, then the total count
RECURSIVE SEPTAStatusCount(_, _, _, _)
SEPTAStatusCount(val, param, s, data_types) ==
  IF data_types = <<>> THEN Inc(val, TOTAL, s)
  ELSE SEPTAStatusCount(IF SEPTAStatusCond(param, Head(data_types))
                          THEN Inc(val, Head(data_types), s) ELSE val,
                        param, s, Tail(data_types))

\* the body of the loop over the issues
SEPTAStatusIssue(val, param) ==
  LET group == _get_status_group(param[STATUS])
  IN  IF NotHardware(param[COMPS]) /\ Truthy(group)
        THEN SEPTAStatusCount(SEPTAStatusCount(val, param, group, SEPTAStatusTypes),
                              param, TOTAL, SEPTAStatusTypes)
        ELSE val

RECURSIVE SEPTAStatusFold(_, _)
SEPTAStatusFold(val, params) ==
  IF params = <<>> THEN val
  ELSE SEPTAStatusFold(SEPTAStatusIssue(val, Head(params)), Tail(params))

SEPTA_get_status_data(cs) ==
  [err |-> FALSE,
   val |-> SEPTAStatusFold([x \in Range(SEPTAStatusTypes) \cup {TOTAL} |->
                              [g \in StatusColumns |-> 0]],
                           Values(cs))]

\* self._get_severity_data and self._get_status_data: the reducers of the
\* class of the calculator
self_get_severity_data(cs) ==
  IF calc = "septa" THEN SEPTA_get_severity_data(cs) ELSE _get_severity_data(cs)

self_get_status_data(cs) ==
  IF calc = "septa" THEN SEPTA_get_status_data(cs) ELSE _get_status_data(cs)

-----------------------------------------------------------------------------
(* utilities.AverageAge: [sum, num, average]; sum is a timedelta (ticks),    *)
(* average a number of tenths of a day                                       *)

\* the fraction bits of a double
MantissaBits == 52

\* 2^s modulo m, and 2^k
RECURSIVE PowMod(_, _)
PowMod(s, m) == IF s = 0 THEN 1 % m ELSE (2 * PowMod(s - 1, m)) % m

RECURSIVE Pow2(_)
Pow2(k) == IF k = 0 THEN 1 ELSE 2 * Pow2(k - 1)

\* floor(log2(a / b)) for a, b > 0: the exponent of the double nearest a / b
RECURSIVE FloorLog2(_, _)
FloorLog2(a, b) ==
  IF a >= 2 * b THEN FloorLog2(a, 2 * b) + 1
  ELSE IF a < b THEN FloorLog2(2 * a, b) - 1
  ELSE 0

\* a float division rounds its quotient to the nearest mantissa, a tie to
\* the even one: 1 when the mantissa is the integer quotient plus one, from
\* the scaled dividend modulo 2 * m (m the divisor)
DivisionRoundsUp(rem2, m) ==
  IF 2 * (rem2 % m) > m \/ (2 * (rem2 % m) = m /\ rem2 >= m) THEN 1 ELSE 0

\* x = float(secs) / 86400 / num for a sum of t > 0 ticks whose exact
\* average t / (TicksPerDay * num) lies half way between two tenths: the
\* sign of x minus the exact average, as the two divisions round it. The
\* mantissas are followed modulo the divisors: r1 and c1 are the remainder
\* and the rounding of float(secs) / 86400, r2 and c2 those of the division
\* by num, and the result is (x - t / d) * d * 2^s for the scale s of x
HalfwayError(t, num) ==
  LET d  == TicksPerDay * num
      s1 == MantissaBits - FloorLog2(t, TicksPerDay)
      k  == FloorLog2(t, TicksPerDay) - FloorLog2(t, d)
      a1 == (t * PowMod(s1, 2 * TicksPerDay)) % (2 * TicksPerDay)
      r1 == a1 % TicksPerDay
      c1 == DivisionRoundsUp(a1, TicksPerDay)
      m1 == ((((t * PowMod(s1, 2 * d)) % (2 * d)) - r1 + c1 * TicksPerDay) % (2 * d))
              \div TicksPerDay
      a2 == (m1 * PowMod(k, 2 * num)) % (2 * num)
      r2 == a2 % num
      c2 == DivisionRoundsUp(a2, num)
  IN  TicksPerDay * (c2 * num - r2) + Pow2(k) * (c1 * TicksPerDay - r1)

\* round(float(sum.total_seconds()) / 86400 / num, 1) in tenths, for
\* num > 0: the double x the two divisions give is rounded to the nearest
\* tenth, and away from zero when x is exactly half way. The rounding error
\* of x decides only where the exact average is half way between two tenths
\* (0.15 is stored below 0.15 and gives 0.1; 0.25 is exact and gives 0.3)
RoundTenths(sum, num) ==
  LET d == TicksPerDay * num
      t == IF sum >= 0 THEN sum ELSE -sum
      tenths ==
        IF (20 * t) % d = 0 /\ ((20 * t) \div d) % 2 = 1
          THEN ((20 * t) \div d - 1) \div 2
               + (IF HalfwayError(t, num) >= 0 THEN 1 ELSE 0)
          ELSE (20 * t + d) \div (2 * d)
  IN  IF sum >= 0 THEN tenths ELSE -tenths

calculate_average(a) ==
  [a EXCEPT !.average = IF a.num > 0 THEN RoundTenths(a.sum, a.num) ELSE 0]

\* AverageAge(age_sum, item_num)
AverageAge(age_sum, item_num) ==
  calculate_average([sum |-> age_sum, num |-> item_num, average |-> 0])

\* mutant: the average is recomputed whatever the flag
update_recomputing(a, value, update_avg) ==
  calculate_average([a EXCEPT !.sum = @ + value, !.num = @ + 1])

update(a, value, update_avg) ==
  LET b == [a EXCEPT !.sum = @ + value, !.num = @ + 1]
  IN  IF update_avg THEN calculate_average(b) ELSE b

\* mutant: the averages are averaged
combine_averages(a, average_obj, update_avg) ==
  [sum |-> a.sum + average_obj.sum, num |-> a.num + average_obj.num,
   average |-> (a.average + average_obj.average) \div 2]

\* mutant: the other accumulator counts as one item
combine_as_item(a, average_obj, update_avg) ==
  LET b == [a EXCEPT !.sum = @ + average_obj.sum, !.num = @ + 1]
  IN  IF update_avg THEN calculate_average(b) ELSE b

combine(a, average_obj, update_avg) ==
  LET b == [a EXCEPT !.sum = @ + average_obj.sum, !.num = @ + average_obj.num]
  IN  IF update_avg THEN calculate_average(b) ELSE b

-----------------------------------------------------------------------------
(* Calculator._set_age_map_value and Calculator._get_average_age_data.  An   *)
(* age map is a function priority -> status group -> AverageAge; the walk    *)
(* yields [err, val]: err when a lookup raises KeyError.                     *)

AgePriorities == Range(priority_list) \cup {OVERALL}

AgeGroups == Range(GroupNames(status_map)) \cup {OVERALL}

\* the age map as initialized
ZeroAgeMap == [p \in AgePriorities |-> [g \in AgeGroups |-> AverageAge(0, 0)]]

\* the loop "for p in p_list" over the rest of p_list
RECURSIVE AgeSetLoop(_, _, _, _)
AgeSetLoop(acc, p_list, status_group, diff) ==
  IF p_list = <<>> \/ acc.err THEN acc
  ELSE LET p == Head(p_list)
       IN  IF p \notin DOMAIN acc.val
             THEN [err |-> TRUE, val |-> acc.val]
           ELSE IF status_group \in DOMAIN acc.val[p]
             THEN AgeSetLoop([err |-> FALSE,
                              val |-> [acc.val EXCEPT ![p][status_group] =
                                         update(@, diff, FALSE)]],
                             Tail(p_list), status_group, diff)
           ELSE AgeSetLoop(acc, Tail(p_list), status_group, diff)

\* mutant: the duration goes to the Overall row alone
_set_age_map_value_overall_only(acc, priority, status_group, upper_date, lower_date) ==
  AgeSetLoop(acc, <<OVERALL>>, status_group, upper_date - lower_date)

_set_age_map_value(acc, priority, status_group, upper_date, lower_date) ==
  LET p_list == IF Truthy(priority) THEN <<priority, OVERALL>> ELSE <<OVERALL>>
  IN  AgeSetLoop(acc, p_list, status_group, upper_date - lower_date)

\* zip(hist[NEW], hist[TRANS])
Zip(a, b) ==
  [j \in 1..(IF Len(a) < Len(b) THEN Len(a) ELSE Len(b)) |-> <<a[j], b[j]>>]

\* the status history tuple list of an issue whose status is read
HistoryList(param) ==
  LET status  == param[STATUS]
      created == Get(param, CREATED, Get(param, SUBMIT_DATE, None))
  IN  IF HIST \in DOMAIN param
        THEN LET hist == param[HIST]
             IN  IF hist[OLD][1] # NoStatus
                   THEN << <<hist[OLD][1], created>> >> \o Zip(hist[NEW_], hist[TRANS])
                   ELSE Zip(hist[NEW_], hist[TRANS])
        ELSE << <<status, created>> >>

\* the loop over the history list: w is [acc, curr_group, curr_date]
RECURSIVE AgeWalk(_, _, _)
AgeWalk(w, priority, history_list) ==
  IF history_list = <<>> THEN w
  ELSE LET status      == Head(history_list)[1]
           status_date == Head(history_list)[2]
           group       == _get_status_group(status)
       IN  IF group # w.curr_group
             THEN AgeWalk([acc |-> _set_age_map_value(w.acc, priority, w.curr_group,
                                                      status_date, w.curr_date),
                           curr_group |-> group, curr_date |-> status_date],
                          priority, Tail(history_list))
             ELSE AgeWalk(w, priority, Tail(history_list))

\* mutant: no sample for the current status group
AgeLast_skipped(w, priority, group, status_date) == w.acc

\* the age of the current status group, after the loop
AgeLast(w, priority, group, status_date) ==
  _set_age_map_value(w.acc, priority, group, today, status_date)

\* mutant: the Overall age always runs to the current date
AgeOverall_to_today(acc, priority, curr_group, status_date, created) ==
  _set_age_map_value(acc, priority, OVERALL, today, created)

\* the Overall age of an issue (either to Closed or to the current date)
AgeOverall(acc, priority, curr_group, status_date, created) ==
  IF curr_group = CLOSED
    THEN _set_age_map_value(acc, priority, OVERALL, status_date, created)
    ELSE _set_age_map_value(acc, priority, OVERALL, today, created)

\* mutant: an issue adds nothing to the age map
AgeIssue_skipped(acc, param) == acc

\* the body of the loop over the issues; status = param_data[STATUS] raises
\* KeyError for a record without Status, with or without history
AgeIssue(acc, param) ==
  LET priority     == Get(param, PRIORITY, None)
      created      == Get(param, CREATED, Get(param, SUBMIT_DATE, None))
      history_list == HistoryList(param)
      first_status == history_list[1][1]
      last         == history_list[Len(history_list)]
      w  == AgeWalk([acc |-> acc, curr_group |-> _get_status_group(first_status),
                     curr_date |-> created], priority, history_list)
      a1 == AgeLast(w, priority, _get_status_group(last[1]), last[2])
  IN  IF acc.err THEN acc
      ELSE IF STATUS \notin DOMAIN param THEN [err |-> TRUE, val |-> acc.val]
      ELSE AgeOverall(a1, priority, w.curr_group, last[2], created)

RECURSIVE AgeFold(_, _)
AgeFold(acc, params) ==
  IF params = <<>> THEN acc
  ELSE AgeFold(AgeIssue(acc, Head(params)), Tail(params))

\* the final pass: average.calculate_average() on every accumulator
\* mutant: the averages are left as the walk left them
AgeFinalize_skipped(am) == am

AgeFinalize(am) ==
  [p \in DOMAIN am |-> [g \in DOMAIN am[p] |-> calculate_average(am[p][g])]]

\* params: data.values()
_get_average_age_data(params) ==
  LET acc == AgeFold([err |-> FALSE, val |-> ZeroAgeMap], params)
  IN  IF acc.err THEN acc ELSE [err |-> FALSE, val |-> AgeFinalize(acc.val)]

-----------------------------------------------------------------------------
(* Calculator.combine_age_data: data is the sequence of data.values(), each  *)
(* a dict issue type -> age map                                              *)

\* the keys of a dict of dicts under key p (none when p is missing)
KeysUnder(d, p) == IF p \in DOMAIN d THEN DOMAIN d[p] ELSE {}

\* the two inner loops: one age map combined into combined_data
CombineInto(combined_data, age_map_) ==
  [priority \in DOMAIN combined_data \cup DOMAIN age_map_ |->
     [status_group \in KeysUnder(combined_data, priority)
                       \cup KeysUnder(age_map_, priority) |->
        LET cell == IF status_group \in KeysUnder(combined_data, priority)
                      THEN combined_data[priority][status_group]
                      ELSE AverageAge(0, 0)
        IN  IF status_group \in KeysUnder(age_map_, priority)
              THEN combine(cell, age_map_[priority][status_group], TRUE)
              ELSE cell]]

RECURSIVE CombineLoop(_, _, _)
CombineLoop(combined_data, values, issue_type) ==
  IF values = <<>> THEN combined_data
  ELSE CombineLoop(CombineInto(combined_data, Head(values)[issue_type]),
                   Tail(values), issue_type)

combine_age_data(values, issue_type) == CombineLoop(<<>>, values, issue_type)

\* TableDataWriter._write_data on one sheet: param_data[first_list[0]] raises
\* IndexError when the sheet's table has no key
_write_data_raises(param_data) == DOMAIN param_data = {}

\* Report._produce_age_file: the workbook of a table without a sheet, or with
\* a sheet without a key, is not written (IndexError of _write_data)
_produce_age_file_raises(table) ==
  \E sheet \in DOMAIN table : _write_data_raises(table[sheet])

\* combine_age_data raises KeyError at age_data[issue_type] when the age data
\* of a project or group has no entry of the issue type
combine_age_data_raises(values, issue_type) ==
  \E j \in 1..Len(values) : issue_type \notin DOMAIN values[j]

\* the loop over self.issue_types: issue type -> combined table
CombineIssueTypes(values) ==
  IF \E j \in 1..Len(issue_types) : combine_age_data_raises(values, issue_types[j])
    THEN [err |-> "KeyError", val |-> NoDict]
    ELSE [err |-> "",
          val |-> [issue \in {issue_types[j] : j \in 1..Len(issue_types)} |->
                     combine_age_data(values, issue)]]

\* data.iteritems(): the age data of every group combined and written to
\* the group's age file; written are the tables written so far
RECURSIVE GroupAgeLoop(_, _, _)

\* the loop body once the issue types of a group are combined: KeyError of
\* the combination, IndexError of the age file, or the next group
GroupAgeStep(group_age, written, combined, rest) ==
  IF combined.err # ""
    THEN [err |-> combined.err, group_age |-> group_age, files |-> written]
  ELSE IF _produce_age_file_raises(combined.val)
    THEN [err |-> "IndexError", group_age |-> group_age, files |-> written]
  ELSE GroupAgeLoop(Append(group_age, combined.val),
                    Append(written, combined.val), rest)

GroupAgeLoop(group_age, written, groups) ==
  IF groups = <<>>
    THEN [err |-> "", group_age |-> group_age, files |-> written]
    ELSE GroupAgeStep(group_age, written, CombineIssueTypes(Head(groups)),
                      Tail(groups))

\* self._produce_age_file(tdc_age, save_path_trail) after the tables written
ProduceOverallFile(written, tdc_age) ==
  IF _produce_age_file_raises(tdc_age.val)
    THEN [err |-> "IndexError", files |-> written]
    ELSE [err |-> "", files |-> Append(written, tdc_age.val)]

\* the overall table: the group results combined for every issue type
ProduceOverall(groups) ==
  IF groups.err # ""
    THEN [err |-> groups.err, files |-> groups.files]
    ELSE ProduceOverallFile(groups.files, CombineIssueTypes(groups.group_age))

\* JiraGTReport._produce_group_age_tables(data), data the sequence of the
\* groups, each the sequence of its projects' age data: the group tables
\* are written, then the group results combined and written as the overall
\* table; the function returns nothing. err is the exception that ends the
\* call ("" when it returns), files the tables written
_produce_group_age_tables(data_) ==
  ProduceOverall(GroupAgeLoop(<<>>, <<>>, data_))

-----------------------------------------------------------------------------
(* JiraGTCalculator.calculate and ClearQuestCalculator.calculate *)

IsJira == calc \in {"jira", "compliance", "septa"}

\* the queue entries of one issue, in the order they are pushed
HistEntries(key, param, proj, priority) ==
  IF HIST \in DOMAIN param
    THEN LET hist == param[HIST]
         IN  [j \in 1..Len(hist[TRANS]) |->
                IF IsJira
                  THEN <<hist[TRANS][j], proj, key, hist[NEW_][j], priority,
                         param[COMPS], param[LINKS], param[PACK]>>
                  ELSE <<hist[TRANS][j], proj, key, hist[NEW_][j], priority>>]
    ELSE <<>>

\* the fields JiraGTCalculator.calculate reads with param_data[...]: one
\* that is missing raises KeyError
JiraFields == {PRIORITY, CREATED, COMPS, LINKS, PACK}

\* mutant: the creation entry carries the issue's current status
IssueEntries_current_status(key, param) ==
  LET priority == IF IsJira THEN param[PRIORITY] ELSE Get(param, PRIORITY, None)
      proj     == Get(param, PROJECT, Project)
  IN  IF ~IsJira
        THEN [err |-> FALSE, val |-> HistEntries(key, param, proj, priority)]
      ELSE IF ~(JiraFields \subseteq DOMAIN param)
        THEN [err |-> TRUE, val |-> <<>>]
      ELSE [err |-> FALSE,
            val |-> << <<param[CREATED], proj, key, param[STATUS], priority,
                         param[COMPS], param[LINKS], param[PACK]>> >>
                    \o HistEntries(key, param, proj, priority)]

\* the loop body for one issue: val is the entries pushed, err the KeyError
\* of a field the record lacks. Jira reads its fields with param_data[...]
\* and queues the first status (New) at the creation date, then the
\* history; ClearQuest reads the priority with get and queues the history
\* alone
IssueEntries(key, param) ==
  LET priority == IF IsJira THEN param[PRIORITY] ELSE Get(param, PRIORITY, None)
      proj     == Get(param, PROJECT, Project)
  IN  IF ~IsJira
        THEN [err |-> FALSE, val |-> HistEntries(key, param, proj, priority)]
      ELSE IF ~(JiraFields \subseteq DOMAIN param)
        THEN [err |-> TRUE, val |-> <<>>]
      ELSE [err |-> FALSE,
            val |-> << <<param[CREATED], proj, key, <<"New">>, priority,
                         param[COMPS], param[LINKS], param[PACK]>> >>
                    \o HistEntries(key, param, proj, priority)]

RECURSIVE PushAll(_, _)
PushAll(heap, entries) ==
  IF entries = <<>> THEN heap
  ELSE PushAll(heappush(heap, Head(entries)), Tail(entries))

\* the parameters current_state maps a key to: zip(fields, values)
StateOf(entry) ==
  LET base == (PROJECT :> entry[E_PROJ]) @@ (TRANS :> entry[E_DATE])
              @@ (STATUS :> entry[E_STATUS]) @@ (PRIORITY :> entry[E_PRIORITY])
  IN  IF Len(entry) = 5 THEN base
      ELSE base @@ (COMPS :> entry[6]) @@ (LINKS :> entry[7]) @@ (PACK :> entry[8])

\* mutant: applying an event starts the table afresh
Apply_reset(cs, entry) == DictSet(<<>>, entry[E_KEY], StateOf(entry))

\* current_state[key] = { ... }
Apply(cs, entry) == DictSet(cs, entry[E_KEY], StateOf(entry))

\* mutant: the full timestamp is compared with the checkpoint's midnight
Due_midnight(entry, date) == entry[E_DATE] <= Midnight(date)

\* queue[0][0].date() <= date
Due(entry, date) == DateOf(entry[E_DATE]) <= date

\* one iteration of the loop over the population
PushIssue ==
  /\ pc = "populate"
  /\ idx <= Len(data)
  /\ LET entries == IssueEntries(data[idx].key, data[idx].val)
     IN  IF entries.err
           THEN /\ pc' = "KeyError"
                /\ UNCHANGED <<files, queue, idx>>
           ELSE /\ queue' = PushAll(queue, entries.val)
                /\ idx' = idx + 1
                /\ pc' = pc
  /\ UNCHANGED <<files, calc, extraction_day, today, data, earliest, dates, di,
                 current_state, severity_data, status_data>>
  /\ UNCHANGED <<files, kwargs, age_map, args, ret>>

\* if (queue): earliest = queue[0][0]; dates = get_historical_dates(...)
StartReplay ==
  /\ pc = "populate"
  /\ idx > Len(data)
  /\ IF queue # <<>>
       THEN /\ earliest' = At(queue, 0)[E_DATE]
            /\ dates' = get_historical_dates(earliest', extraction_day, FALSE)
            /\ di' = 1
            /\ pc' = "replay"
       ELSE /\ pc' = "age"
            /\ UNCHANGED <<files, earliest, dates, di>>
  /\ UNCHANGED <<files, calc, extraction_day, today, data, idx, queue,
                 current_state, severity_data, status_data>>
  /\ UNCHANGED <<files, kwargs, age_map, args, ret>>

\* one iteration of the while loop: pop an event and apply it
PopEvent ==
  /\ pc = "replay"
  /\ queue # <<>>
  /\ Due(At(queue, 0), dates[di])
  /\ LET popped == heappop(queue)
     IN  /\ queue' = popped.heap
         /\ current_state' = Apply(current_state, popped.item)
  /\ UNCHANGED <<files, calc, extraction_day, today, data, idx, earliest, dates, di,
                 severity_data, status_data, pc>>
  /\ UNCHANGED <<files, kwargs, age_map, args, ret>>

\* the while loop is over: set the metric data at the date, go to the next
Aggregate ==
  /\ pc = "replay"
  /\ ~(queue # <<>> /\ Due(At(queue, 0), dates[di]))
  /\ LET sev == self_get_severity_data(current_state)
         sta == self_get_status_data(current_state)
     IN  IF sev.err
           THEN /\ pc' = "KeyError"
                /\ UNCHANGED <<files, severity_data, status_data, di>>
         ELSE IF sta.err
           THEN /\ severity_data' = ODSet(severity_data, dates[di], sev.val)
                /\ pc' = "KeyError"
                /\ UNCHANGED <<files, status_data, di>>
         ELSE /\ severity_data' = ODSet(severity_data, dates[di], sev.val)
              /\ status_data' = ODSet(status_data, dates[di], sta.val)
              /\ di' = di + 1
              /\ pc' = IF di = Len(dates) THEN "age" ELSE "replay"
  /\ UNCHANGED <<files, calc, extraction_day, today, data, idx, queue, earliest, dates,
                 current_state>>
  /\ UNCHANGED <<files, kwargs, age_map, args, ret>>

\* data.values()
DataValues == [j \in 1..Len(data) |-> data[j].val]

\* mutant: the age data is computed whatever the keyword
AgeRequested_always(kw) == TRUE

\* 'age_data' not in kwargs or kwargs['age_data']
AgeRequested(kw) == kw = "absent" \/ kw = "True"

\* the age data, then: return severity_data, status_data, age_map
Return ==
  /\ pc = "age"
  /\ LET wanted == IF IsJira THEN AgeRequested(kwargs) ELSE TRUE
         age    == _get_average_age_data(DataValues)
     IN  IF ~wanted
           THEN /\ age_map' = NoDict
                /\ pc' = "done"
         ELSE IF age.err
           THEN /\ pc' = "KeyError"
                /\ UNCHANGED age_map
         ELSE /\ age_map' = age.val
              /\ pc' = "done"
  /\ UNCHANGED <<files, calc, kwargs, extraction_day, today, data, idx, queue, earliest,
                 dates, di, current_state, severity_data, status_data, args, ret>>

Next == PushIssue \/ StartReplay \/ PopEvent \/ Aggregate \/ Return

-----------------------------------------------------------------------------
(* calculate as a function of the population: the series it returns *)

\* the loop over the population
RECURSIVE Populate(_, _)
Populate(heap, items) ==
  IF items = <<>> THEN [err |-> FALSE, heap |-> heap]
  ELSE LET entries == IssueEntries(Head(items).key, Head(items).val)
       IN  IF entries.err THEN [err |-> TRUE, heap |-> heap]
           ELSE Populate(PushAll(heap, entries.val), Tail(items))

\* the while loop at one date: r is [queue, current_state]
RECURSIVE PopDue(_, _)
PopDue(r, date) ==
  IF r.queue # <<>> /\ Due(At(r.queue, 0), date)
    THEN PopDue([queue |-> heappop(r.queue).heap,
                 current_state |-> Apply(r.current_state, heappop(r.queue).item)],
                date)
    ELSE r

\* the loop over the dates: out is [err, severity_data, status_data]
RECURSIVE DateLoop(_, _, _)
DateLoop(r, ds, out) ==
  IF ds = <<>> THEN out
  ELSE LET r1  == PopDue(r, Head(ds))
           sev == self_get_severity_data(r1.current_state)
           sta == self_get_status_data(r1.current_state)
       IN  IF sev.err THEN [out EXCEPT !.err = TRUE]
           ELSE IF sta.err
             THEN [out EXCEPT !.err = TRUE,
                              !.severity_data = ODSet(@, Head(ds), sev.val)]
           ELSE DateLoop(r1, Tail(ds),
                         [out EXCEPT !.severity_data = ODSet(@, Head(ds), sev.val),
                                     !.status_data = ODSet(@, Head(ds), sta.val)])

\* severity_data and status_data of calculate(data)
CalculateSeries(items) ==
  LET heap == Populate(<<>>, items).heap
      out  == [err |-> FALSE, severity_data |-> <<>>, status_data |-> <<>>]
  IN  IF Populate(<<>>, items).err THEN [out EXCEPT !.err = TRUE]
      ELSE IF heap # <<>>
        THEN DateLoop([queue |-> heap, current_state |-> <<>>],
                      get_historical_dates(At(heap, 0)[E_DATE], extraction_day, FALSE),
                      out)
        ELSE out

-----------------------------------------------------------------------------
(* The inputs of a replay run *)

Stamps == 0..MaxStamp

\* today: the epoch's midnight, or the noon two days before a later week
Todays == {0} \cup {Days(DaysPerWeek * w - 2) + 1 : w \in 1..MaxWeeks}

Priorities == {None, "Major"}

NewStatuses == {<<"Open">>, <<"Closed">>}

InitialStatuses == {<<"New">>, <<"Open">>}

\* ascending transition dates (the history query orders by date)
AscSeqs(n) ==
  {t \in [1..n -> Stamps] : \A j \in 1..(n - 1) : t[j] <= t[j + 1]}

\* the first old status: 'New' in Jira, none in ClearQuest
OldOf(c, new) ==
  [j \in 1..Len(new) |->
     IF j = 1 THEN (IF c = "jira" THEN <<"New">> ELSE NoStatus) ELSE new[j - 1]]

HistOf(c, new, trans) ==
  (OLD :> OldOf(c, new)) @@ (NEW_ :> new) @@ (TRANS :> trans)

\* the record of one issue with n history events
IssueOf(c, priority, created, status, new, trans) ==
  LET base == IF c = "jira"
                THEN (PRIORITY :> priority) @@ (STATUS :> status)
                     @@ (CREATED :> created) @@ (COMPS :> "") @@ (LINKS :> "")
                     @@ (PACK :> None)
                ELSE (PRIORITY :> priority) @@ (STATUS :> status)
                     @@ (SUBMIT_DATE :> created)
  IN  IF Len(new) = 0 THEN base ELSE base @@ (HIST :> HistOf(c, new, trans))

Issues(c, n) ==
  IF n = 0
    THEN {IssueOf(c, p, cr, st, <<>>, <<>>) :
            p \in Priorities, cr \in Stamps, st \in InitialStatuses}
    ELSE {IssueOf(c, x.p, x.t[1], x.new[n], x.new, SubSeq(x.t, 2, n + 1)) :
            x \in {y \in [p : Priorities, t : AscSeqs(n + 1),
                          new : [1..n -> NewStatuses]] : TRUE}}

\* the numbers of history events of the two issues of a population
EventCounts ==
  {m \in (0..MaxEvents) \X (0..MaxEvents) : m[1] + m[2] <= MaxEvents}

Init ==
  /\ calc \in {"jira", "scr"}
  /\ extraction_day = DefaultExtractionDay
  /\ today \in Todays
  /\ \E n \in EventCounts :
       \E p1 \in Issues(calc, n[1]), p2 \in Issues(calc, n[2]) :
         data = << [key |-> KeyOrder[1], val |-> p1],
                   [key |-> KeyOrder[2], val |-> p2] >>
  /\ idx = 1
  /\ queue = <<>>
  /\ earliest = 0
  /\ dates = <<>>
  /\ di = 0
  /\ current_state = <<>>
  /\ severity_data = <<>>
  /\ status_data = <<>>
  /\ pc = "populate"
  /\ kwargs = "absent"
  /\ age_map = NoDict
  /\ files = <<>>
  /\ args = <<>>
  /\ ret = NoDict

Spec == Init /\ [][Next]_vars

-----------------------------------------------------------------------------
(* Specification of the date series alone: inputs drawn from bounded sets *)

DateStamps == 0..(Days(MaxDay) + TicksPerDay - 1)

InitDates ==
  /\ pc = "call"
  /\ earliest \in DateStamps
  /\ today \in DateStamps
  /\ extraction_day \in 0..6
  /\ dates = <<>>
  /\ calc = "none"
  /\ data = <<>>
  /\ idx = 0
  /\ queue = <<>>
  /\ di = 0
  /\ current_state = <<>>
  /\ severity_data = <<>>
  /\ status_data = <<>>
  /\ kwargs = "absent"
  /\ age_map = NoDict
  /\ files = <<>>
  /\ args = <<>>
  /\ ret = NoDict

CallGetHistoricalDates ==
  /\ pc = "call"
  /\ \E hastime \in BOOLEAN :
       /\ dates' = get_historical_dates(earliest, extraction_day, hastime)
       /\ pc' = IF hastime THEN "ghd_datetimes" ELSE "ghd_dates"
  /\ UNCHANGED <<files, calc, extraction_day, today, data, idx, queue, earliest, di,
                 current_state, severity_data, status_data>>
  /\ UNCHANGED <<files, kwargs, age_map, args, ret>>

\* today plays the currdate argument
CallAppendHistoricalDate ==
  /\ pc = "call"
  /\ dates' = _append_historical_date(earliest, today)
  /\ pc' = "ahd"
  /\ UNCHANGED <<files, calc, extraction_day, today, data, idx, queue, earliest, di,
                 current_state, severity_data, status_data>>
  /\ UNCHANGED <<files, kwargs, age_map, args, ret>>

NextDates == CallGetHistoricalDates \/ CallAppendHistoricalDate

SpecDates == InitDates /\ [][NextDates]_vars

-----------------------------------------------------------------------------
(* Specification of the snapshot reducers alone: the calculator and the     *)
(* snapshot are drawn from bounded sets                                      *)

Calculators == {"jira", "scr", "dcr", "compliance"}

\* priorities of a snapshot: none, one of the default list, one of no list
SnapshotPriorities == {None, "Major", "Urgent"}

\* statuses of a snapshot: mapped by some calculators, by none, empty
SnapshotStatuses ==
  {<<"Open">>, <<"Closed">>, W2("In", "Review"), <<"Bogus">>, NoStatus}

\* projects of a snapshot: the configured one and another
SnapshotProjects == {RecordProject, "OTHER"}

InitReduce ==
  /\ calc \in Calculators
  /\ \E n \in 1..Len(KeyOrder) :
       \E f \in [1..n -> SnapshotProjects \X SnapshotStatuses \X SnapshotPriorities] :
         current_state =
           [k \in {KeyOrder[j] : j \in 1..n} |->
              LET j == CHOOSE j \in 1..n : KeyOrder[j] = k
              IN  StateOf(IF IsJira
                            THEN <<0, f[j][1], k, f[j][2], f[j][3], "", "", None>>
                            ELSE <<0, f[j][1], k, f[j][2], f[j][3]>>)]
  /\ pc = "reduce"
  /\ kwargs = "absent"
  /\ extraction_day = DefaultExtractionDay
  /\ today = 0
  /\ data = <<>>
  /\ idx = 0
  /\ queue = <<>>
  /\ earliest = 0
  /\ dates = <<>>
  /\ di = 0
  /\ severity_data = <<>>
  /\ status_data = <<>>
  /\ age_map = NoDict
  /\ files = <<>>
  /\ args = <<>>
  /\ ret = NoDict

\* severity_data[date] = self._get_severity_data(current_state)
CallSeverityData ==
  /\ pc = "reduce"
  /\ ret' = self_get_severity_data(current_state)
  /\ pc' = "severity_data"
  /\ UNCHANGED <<files, calc, kwargs, extraction_day, today, data, idx, queue, earliest,
                 dates, di, current_state, severity_data, status_data, age_map,
                 args>>

\* status_data[date] = self._get_status_data(current_state)
CallStatusData ==
  /\ pc = "reduce"
  /\ ret' = self_get_status_data(current_state)
  /\ pc' = "status_data"
  /\ UNCHANGED <<files, calc, kwargs, extraction_day, today, data, idx, queue, earliest,
                 dates, di, current_state, severity_data, status_data, age_map,
                 args>>

NextReduce == CallSeverityData \/ CallStatusData

SpecReduce == InitReduce /\ [][NextReduce]_vars

-----------------------------------------------------------------------------
(* The reducers of every calculator on a snapshot of one or two issues,     *)
(* with the fields that the SEPTA reducers read.                            *)

SnapshotCalculators == {"jira", "scr", "septa", "compliance"}

\* Components, Linked Issues and Pack of one issue
SnapshotExtras ==
  {<<"", "", None>>, <<"GUI", "PACK-9, PACK-151", "FAT-B">>,
   <<"Hardware", "PACK-151", "PILOT">>, <<"HW Board", "", None>>,
   <<"Security", "PACK-9", "FAT-B">>, <<"Security Audit", "PACK-151", "PILOT">>}

\* statuses of a snapshot issue: of the Closed group of some calculators and
\* not of others, of no group
SnapshotStates ==
  {<<"Open">>, <<"Closed">>, <<"Resolved">>, W3("In", "\t", "Test"), <<"Bogus">>}

\* priorities of a snapshot issue: none, three listed ones
SnapshotListed == {None, "Major", "Minor", "Blocker"}

\* the current state of one issue
SnapshotIssue(k, project, status, priority, extras) ==
  StateOf(IF IsJira
            THEN <<0, project, k, status, priority, extras[1], extras[2], extras[3]>>
            ELSE <<0, project, k, status, priority>>)

InitSnapshot ==
  /\ calc \in SnapshotCalculators
  /\ \E st1 \in SnapshotStates, p1 \in SnapshotListed, x1 \in SnapshotExtras :
       \/ current_state
            = (KeyOrder[1] :> SnapshotIssue(KeyOrder[1], RecordProject, st1, p1, x1))
       \/ \E st2 \in SnapshotStates, p2 \in SnapshotListed, x2 \in SnapshotExtras :
            current_state
              = (KeyOrder[1] :> SnapshotIssue(KeyOrder[1], RecordProject, st1, p1, x1))
                @@ (KeyOrder[2] :> SnapshotIssue(KeyOrder[2], RecordProject, st2, p2, x2))
  /\ pc = "reduce"
  /\ kwargs = "absent"
  /\ extraction_day = IF calc = "septa" THEN SEPTAExtractionDay
                                        ELSE DefaultExtractionDay
  /\ today = 0
  /\ data = <<>>
  /\ idx = 0
  /\ queue = <<>>
  /\ earliest = 0
  /\ dates = <<>>
  /\ di = 0
  /\ severity_data = <<>>
  /\ status_data = <<>>
  /\ age_map = NoDict
  /\ files = <<>>
  /\ args = <<>>
  /\ ret = NoDict

\* self._get_severity_data(current_state), of the class of the calculator
CallSeverityReducer ==
  /\ pc = "reduce"
  /\ ret' = self_get_severity_data(current_state)
  /\ pc' = "severity_data"
  /\ UNCHANGED <<files, calc, kwargs, extraction_day, today, data, idx, queue, earliest,
                 dates, di, current_state, severity_data, status_data, age_map,
                 args>>

\* self._get_status_data(current_state), of the class of the calculator
CallStatusReducer ==
  /\ pc = "reduce"
  /\ ret' = self_get_status_data(current_state)
  /\ pc' = "status_data"
  /\ UNCHANGED <<files, calc, kwargs, extraction_day, today, data, idx, queue, earliest,
                 dates, di, current_state, severity_data, status_data, age_map,
                 args>>

NextSnapshot == CallSeverityReducer \/ CallStatusReducer

SpecSnapshot == InitSnapshot /\ [][NextSnapshot]_vars

-----------------------------------------------------------------------------
(* Specification of _get_average_age_data alone, one issue per step: the    *)
(* age map holds the unfinalized accumulators until the final pass           *)

\* priorities of the aged issues: none, one of the default list, one of no list
AgePopPriorities == {None, "Major", "Urgent"}

\* statuses of the aged issues: two of the Open group, Closed, one of no group
AgeStatuses == {<<"Open">>, <<"Approved">>, <<"Closed">>, <<"Bogus">>}

\* the issues with n history events
AgeIssues(c, n) ==
  IF n = 0
    THEN {IssueOf(c, p, cr, st, <<>>, <<>>) :
            p \in AgePopPriorities, cr \in Stamps, st \in AgeStatuses}
    ELSE UNION {{IssueOf(c, p, t[1], new[n], new, SubSeq(t, 2, n + 1)) :
                   p \in AgePopPriorities, t \in AscSeqs(n + 1)} :
                new \in [1..n -> AgeStatuses]}

\* a record without its Status field
Unstatused(param) == [f \in DOMAIN param \ {STATUS} |-> param[f]]

\* a second issue, without history, possibly of another listed priority; or
\* a record without Status, without and with history
AgeSecondIssues(c) ==
  {IssueOf(c, p, 0, st, <<>>, <<>>) :
     p \in AgePopPriorities \cup {"Minor"}, st \in {<<"Open">>, <<"Closed">>}}
  \cup {Unstatused(IssueOf(c, p, 0, <<"Open">>, <<>>, <<>>)) : p \in {None, "Major"}}
  \cup {Unstatused(IssueOf(c, "Major", 0, <<"Closed">>, << <<"Closed">> >>, <<1>>))}

InitAge ==
  /\ calc \in {"jira", "scr"}
  /\ today = MaxStamp + 1
  /\ \E n \in 0..MaxEvents :
       \E p1 \in AgeIssues(calc, n) :
         \/ data = << [key |-> KeyOrder[1], val |-> p1] >>
         \/ \E p2 \in AgeSecondIssues(calc) :
              data = << [key |-> KeyOrder[1], val |-> p1],
                        [key |-> KeyOrder[2], val |-> p2] >>
  /\ idx = 1
  /\ age_map = ZeroAgeMap
  /\ files = <<>>
  /\ pc = "age_loop"
  /\ kwargs = "absent"
  /\ extraction_day = DefaultExtractionDay
  /\ queue = <<>>
  /\ earliest = 0
  /\ dates = <<>>
  /\ di = 0
  /\ current_state = <<>>
  /\ severity_data = <<>>
  /\ status_data = <<>>
  /\ args = <<>>
  /\ ret = NoDict

\* one iteration of "for param_data in data.values()"
AgeStep ==
  /\ pc = "age_loop"
  /\ idx <= Len(data)
  /\ LET r == AgeIssue([err |-> FALSE, val |-> age_map], data[idx].val)
     IN  /\ age_map' = r.val
         /\ IF r.err THEN /\ pc' = "KeyError" /\ UNCHANGED idx
                     ELSE /\ pc' = "age_loop" /\ idx' = idx + 1
  /\ UNCHANGED <<files, calc, kwargs, extraction_day, today, data, queue, earliest,
                 dates, di, current_state, severity_data, status_data, args, ret>>

\* the final pass and the return
AgeFinish ==
  /\ pc = "age_loop"
  /\ idx > Len(data)
  /\ age_map' = AgeFinalize(age_map)
  /\ pc' = "done"
  /\ UNCHANGED <<files, calc, kwargs, extraction_day, today, data, idx, queue, earliest,
                 dates, di, current_state, severity_data, status_data, args, ret>>

NextAge == AgeStep \/ AgeFinish

SpecAge == InitAge /\ [][NextAge]_vars

-----------------------------------------------------------------------------
(* Specification of AverageAge.combine alone: three accumulators drawn from *)
(* a bounded set are combined in either order and either grouping            *)

\* finalized accumulators: no item, or up to MaxItems items of up to
\* MaxAgeSum ticks in all
Accumulators ==
  {AverageAge(0, 0)} \cup
  {AverageAge(age_sum, item_num) : age_sum \in 0..MaxAgeSum, item_num \in 1..MaxItems}

\* args: the accumulators a, b, c and the update_avg flag
InitAverage ==
  /\ args \in Accumulators \X Accumulators \X Accumulators \X BOOLEAN
  /\ ret = NoDict
  /\ pc = "combine"
  /\ calc = "jira"
  /\ kwargs = "absent"
  /\ extraction_day = DefaultExtractionDay
  /\ today = 0
  /\ data = <<>>
  /\ idx = 0
  /\ queue = <<>>
  /\ earliest = 0
  /\ dates = <<>>
  /\ di = 0
  /\ current_state = <<>>
  /\ severity_data = <<>>
  /\ status_data = <<>>
  /\ age_map = NoDict
  /\ files = <<>>

AverageFrame ==
  UNCHANGED <<files, calc, kwargs, extraction_day, today, data, idx, queue, earliest,
              dates, di, current_state, severity_data, status_data, age_map, args>>

\* a.combine(b)
CombineAB ==
  /\ pc = "combine"
  /\ ret' = combine(args[1], args[2], args[4])
  /\ pc' = "a+b"
  /\ AverageFrame

\* b.combine(a)
CombineBA ==
  /\ pc = "combine"
  /\ ret' = combine(args[2], args[1], args[4])
  /\ pc' = "b+a"
  /\ AverageFrame

\* a.combine(b); a.combine(c)
CombineLeft ==
  /\ pc = "combine"
  /\ ret' = combine(combine(args[1], args[2], args[4]), args[3], args[4])
  /\ pc' = "(a+b)+c"
  /\ AverageFrame

\* b.combine(c); a.combine(b)
CombineRight ==
  /\ pc = "combine"
  /\ ret' = combine(args[1], combine(args[2], args[3], args[4]), args[4])
  /\ pc' = "a+(b+c)"
  /\ AverageFrame

NextAverage == CombineAB \/ CombineBA \/ CombineLeft \/ CombineRight

SpecAverage == InitAverage /\ [][NextAverage]_vars

\* a.update(value, update_avg), the value being the age sum of b
CallUpdate ==
  /\ pc = "combine"
  /\ ret' = update(args[1], args[2].sum, args[4])
  /\ pc' = "updated"
  /\ AverageFrame

\* a.combine(b, update_avg)
CallCombine ==
  /\ pc = "combine"
  /\ ret' = combine(args[1], args[2], args[4])
  /\ pc' = "combined"
  /\ AverageFrame

\* a.calculate_average() after the mutation
CallCalculateAverage ==
  /\ pc \in {"updated", "combined"}
  /\ ret' = calculate_average(ret)
  /\ pc' = "calculate_average"
  /\ AverageFrame

NextMutate == CallUpdate \/ CallCombine \/ CallCalculateAverage

SpecMutate == InitAverage /\ [][NextMutate]_vars

-----------------------------------------------------------------------------------------------------------------------------------------------------
(* Specification of combine_age_data and of the report's group age tables:   *)
(* the age data of up to three projects are combined at once for one issue  *)
(* type, or in two groups and then together for every issue type            *)

\* the issue type combine_age_data is called with on its own
IssueType == DEFECT

\* the status groups of the age maps to combine
CombineGroups == {"Open", OVERALL}

\* age maps of one cell, of one Overall cell, and of all the cells
CellMaps ==
  {(OVERALL :> (g :> a)) : g \in CombineGroups, a \in Accumulators}

OverallMaps ==
  {(OVERALL :> (OVERALL :> a)) : a \in Accumulators}

FullMaps ==
  {(OVERALL :> f) : f \in [CombineGroups -> Accumulators]}

\* the age data of a project: issue type -> age map, m the Defect age map
AgeData(m) ==
  (CR :> (OVERALL :> (OVERALL :> AverageAge(1, 1)))) @@ (DEFECT :> m)
    @@ (TASK :> (OVERALL :> ("Open" :> AverageAge(0, 0))))

\* age data without the entry of one issue type
LackingType(age_data, issue) ==
  [i \in DOMAIN age_data \ {issue} |-> age_data[i]]

\* the age data of the last project: of every issue type, or lacking one
LastAgeData(m) ==
  {AgeData(m), LackingType(AgeData(m), CR), LackingType(AgeData(m), DEFECT)}

InitCombine ==
  /\ \E m1 \in FullMaps \cup CellMaps :
       \/ \E d1 \in LastAgeData(m1) : args = <<d1>>
       \/ \E m2 \in CellMaps :
            \/ \E d2 \in LastAgeData(m2) : args = <<AgeData(m1), d2>>
            \/ \E m3 \in OverallMaps :
                 args = <<AgeData(m1), AgeData(m2), AgeData(m3)>>
  /\ ret = NoDict
  /\ pc = "combine"
  /\ idx = 0
  /\ calc = "jira"
  /\ kwargs = "absent"
  /\ extraction_day = DefaultExtractionDay
  /\ today = 0
  /\ data = <<>>
  /\ queue = <<>>
  /\ earliest = 0
  /\ dates = <<>>
  /\ di = 0
  /\ current_state = <<>>
  /\ severity_data = <<>>
  /\ status_data = <<>>
  /\ age_map = NoDict
  /\ files = <<>>

\* self.calc.combine_age_data(data, issue)
CallCombineAgeData ==
  /\ pc = "combine"
  /\ IF combine_age_data_raises(args, IssueType)
       THEN pc' = "KeyError" /\ ret' = ret
       ELSE pc' = "combined" /\ ret' = combine_age_data(args, IssueType)
  /\ UNCHANGED <<files, calc, kwargs, extraction_day, today, data, idx, queue,
                 earliest, dates, di, current_state, severity_data, status_data,
                 age_map, args>>

\* the outcome of the call: None returned, or the exception that ended it
Produced(tables) ==
  /\ files' = tables.files
  /\ ret' = IF tables.err = "" THEN None ELSE ret
  /\ pc' = IF tables.err = "" THEN "grouped" ELSE tables.err

\* self._produce_group_age_tables(age_data): the first k projects are one
\* group, the rest another; the call returns None, or ends with the KeyError
\* of a project without an issue type or the IndexError of an empty table
CallProduceGroupAgeTables ==
  /\ pc = "combine"
  /\ \E k \in 0..Len(args) :
       /\ idx' = k
       /\ Produced(_produce_group_age_tables(<<SubSeq(args, 1, k),
                                               SubSeq(args, k + 1, Len(args))>>))
  /\ UNCHANGED <<calc, kwargs, extraction_day, today, data, queue, earliest,
                 dates, di, current_state, severity_data, status_data, age_map, args>>

NextCombine == CallCombineAgeData \/ CallProduceGroupAgeTables

SpecCombine == InitCombine /\ [][NextCombine]_vars

-----------------------------------------------------------------------------
(* The age map of a population, then combined with the age map of another   *)
(* project as the report does.                                              *)

\* the age map of another project, of one Major issue without history
OtherAgeMap ==
  _get_average_age_data(<< IssueOf(calc, "Major", 0, <<"Open">>, <<>>, <<>>) >>).val

\* combine_age_data on the age data of the project alone, or of the two
\* projects
CallCombineProjects ==
  /\ pc = "done"
  /\ \/ ret' = combine_age_data(<< (IssueType :> age_map) >>, IssueType)
     \/ ret' = combine_age_data(<< (IssueType :> age_map), (IssueType :> OtherAgeMap) >>,
                                IssueType)
  /\ pc' = "combined"
  /\ UNCHANGED <<files, calc, kwargs, extraction_day, today, data, idx, queue, earliest,
                 dates, di, current_state, severity_data, status_data, age_map, args>>

NextRollup == AgeStep \/ AgeFinish \/ CallCombineProjects

SpecRollup == InitAge /\ [][NextRollup]_vars

-----------------------------------------------------------------------------
(* Specification of calculate with its keyword: the replay of Spec from     *)
(* populations of no, one or two issues and every value of age_data          *)

\* the age_data keyword of calculate: not given, True, False
AgeDataKeywords == {"absent", "True", "False"}

\* the issues with n history events
FlagIssues(c, n) ==
  IF n = 0
    THEN {IssueOf(c, p, cr, <<"Open">>, <<>>, <<>>) :
            p \in AgePopPriorities, cr \in Stamps}
    ELSE UNION {{IssueOf(c, p, t[1], new[n], new, SubSeq(t, 2, n + 1)) :
                   p \in AgePopPriorities, t \in AscSeqs(n + 1)} :
                new \in [1..n -> NewStatuses]}

\* a second issue, without history; or a record without Status
FlagSecondIssues(c) ==
  {IssueOf(c, p, 0, <<"Open">>, <<>>, <<>>) : p \in AgePopPriorities}
  \cup {Unstatused(IssueOf(c, None, 0, <<"Open">>, <<>>, <<>>))}

InitFlag ==
  /\ calc \in {"jira", "scr"}
  /\ kwargs \in AgeDataKeywords
  /\ extraction_day = DefaultExtractionDay
  /\ today \in Todays
  /\ \/ data = <<>>
     \/ \E n \in 0..MaxEvents :
          \E p1 \in FlagIssues(calc, n) :
            \/ data = << [key |-> KeyOrder[1], val |-> p1] >>
            \/ \E p2 \in FlagSecondIssues(calc) :
                 data = << [key |-> KeyOrder[1], val |-> p1],
                           [key |-> KeyOrder[2], val |-> p2] >>
  /\ idx = 1
  /\ queue = <<>>
  /\ earliest = 0
  /\ dates = <<>>
  /\ di = 0
  /\ current_state = <<>>
  /\ severity_data = <<>>
  /\ status_data = <<>>
  /\ pc = "populate"
  /\ age_map = NoDict
  /\ files = <<>>
  /\ args = <<>>
  /\ ret = NoDict

SpecFlag == InitFlag /\ [][Next]_vars

-----------------------------------------------------------------------------
(* Status lookups: calls of Calculator._get_status_group on a status as the *)
(* tracker may hold it (padded, or with several whitespace characters       *)
(* between its words) and of Calculator.get_status_desc.                    *)

StatusCalculators ==
  {"jira", "septa", "scr", "dcr", "dcr_notice", "dcr_other", "rr_dev", "rr_prod"}

\* whitespace before and after a status
Pads == {<<>>, <<" ">>, <<"\t", " ">>}

\* whitespace between two words of a status
Seps == {<<" ">>, <<" ", " ">>, <<"\n", "\t">>, <<"\r", "\f">>}

\* the word sequences of the statuses looked up: every status of the map,
\* the empty status, a status of no group and the words of a status in
\* another order
LookupWords(smap) ==
  UNION {Range(smap[j].statuses) : j \in 1..Len(smap)}
    \cup {<<>>, <<"Bogus">>, W2("Review", "In")}

\* the words of a normalized status, written with the given whitespace
Written(status, lead, sep, trail) ==
  lead \o JoinWith(sep, [j \in 1..Len(Split(status)) |-> <<Split(status)[j]>>]) \o trail

StatusInputs(smap) ==
  {Written(w, lead, sep, trail) :
     w \in LookupWords(smap), lead \in Pads, sep \in Seps, trail \in Pads}

InitStatus ==
  /\ calc \in StatusCalculators
  /\ kwargs = "absent"
  /\ extraction_day = IF calc = "septa" THEN SEPTAExtractionDay
                                        ELSE DefaultExtractionDay
  /\ today = 0
  /\ data = <<>>
  /\ idx = 0
  /\ queue = <<>>
  /\ earliest = None
  /\ dates = <<>>
  /\ di = 0
  /\ current_state = <<>>
  /\ severity_data = <<>>
  /\ status_data = <<>>
  /\ age_map = NoDict
  /\ files = <<>>
  /\ args \in StatusInputs(status_map)
  /\ ret = None
  /\ pc = "status"

\* ret = self._get_status_group(status)
CallGetStatusGroup ==
  /\ pc = "status"
  /\ ret' = _get_status_group(args)
  /\ pc' = "_get_status_group"
  /\ UNCHANGED <<files, calc, kwargs, extraction_day, today, data, idx, queue, earliest,
                 dates, di, current_state, severity_data, status_data, age_map,
                 args>>

\* ret = self.get_status_desc()
CallGetStatusDesc ==
  /\ pc = "status"
  /\ ret' = get_status_desc
  /\ pc' = "get_status_desc"
  /\ UNCHANGED <<files, calc, kwargs, extraction_day, today, data, idx, queue, earliest,
                 dates, di, current_state, severity_data, status_data, age_map,
                 args>>

NextStatus == CallGetStatusGroup \/ CallGetStatusDesc

SpecStatus == InitStatus /\ [][NextStatus]_vars

-----------------------------------------------------------------------------
(* Construction and first use: a calculator is constructed for an issue     *)
(* type and calculate is called on a population of one issue.               *)

\* DCRCalculator and RRCalculator for a supported and for another issue
\* type, and the two base classes ClearQuestCalculator and Calculator
ConstructCalculators ==
  {"dcr", "dcr_other", "rr_dev", "rr_other", "clearquest", "calculator"}

InitConstruct ==
  /\ calc \in ConstructCalculators
  /\ kwargs = "absent"
  /\ extraction_day = DefaultExtractionDay
  /\ today \in Todays
  /\ \E n \in 0..MaxEvents :
       \E p1 \in Issues(calc, n) : data = << [key |-> KeyOrder[1], val |-> p1] >>
  /\ idx = 1
  /\ queue = <<>>
  /\ earliest = 0
  /\ dates = <<>>
  /\ di = 0
  /\ current_state = <<>>
  /\ severity_data = <<>>
  /\ status_data = <<>>
  /\ pc = "construct"
  /\ age_map = NoDict
  /\ files = <<>>
  /\ args = <<>>
  /\ ret = NoDict

\* __init__: no constructor raises; ret is self.status_map as it leaves it
Construct ==
  /\ pc = "construct"
  /\ ret' = status_map
  /\ pc' = "populate"
  /\ UNCHANGED <<files, calc, kwargs, extraction_day, today, data, idx, queue, earliest,
                 dates, di, current_state, severity_data, status_data, age_map,
                 args>>

\* Calculator.calculate: raise NotImplemented(...) calls the NotImplemented
\* constant, which is not callable
CallBaseCalculate ==
  /\ pc = "populate"
  /\ calc = "calculator"
  /\ pc' = "TypeError"
  /\ UNCHANGED <<files, calc, kwargs, extraction_day, today, data, idx, queue, earliest,
                 dates, di, current_state, severity_data, status_data, age_map,
                 args, ret>>

\* the calculate of ClearQuestCalculator, that DCRCalculator and RRCalculator
\* inherit
CallClearQuestCalculate == calc # "calculator" /\ Next

NextConstruct == Construct \/ CallBaseCalculate \/ CallClearQuestCalculate

SpecConstruct == InitConstruct /\ [][NextConstruct]_vars

-----------------------------------------------------------------------------
(* Claims about the replay (specification Spec) *)

\* the earliest date d >= x whose weekday is the extraction day
FirstExtractionDayFrom(x, ext) == x + ((ext - Weekday(x)) % DaysPerWeek)

\* the while loop of the checkpoint dates[di] is over: current_state is the
\* snapshot that is aggregated at dates[di]
AggregationPoint ==
  /\ pc = "replay"
  /\ ~(queue # <<>> /\ Due(At(queue, 0), dates[di]))

\* param_data.get(CREATED, param_data.get(SUBMIT_DATE))
CreatedOf(param) == Get(param, CREATED, Get(param, SUBMIT_DATE, None))

SetMax(S) == CHOOSE m \in S : \A x \in S : x <= m

\* the queued events of the j-th issue whose calendar date is <= d
DueEvents(j, d) ==
  {e \in Range(IssueEntries(data[j].key, data[j].val).val) : DateOf(e[E_DATE]) <= d}

LatestStamp(evs) == SetMax({e[E_DATE] : e \in evs})

\* the last date of the series: the extraction date of today
LastDate == DateOf(get_extraction_date(today, extraction_day))

\* C1: in the snapshot aggregated at a checkpoint d, every issue with a queued
\* event of calendar date <= d (any time of day on d included) has the new
\* status of its queued event of greatest timestamp among those; an issue
\* with no such event is absent.
C1_SnapshotIsLatestDueEvent ==
  AggregationPoint =>
    \A j \in 1..Len(data) :
      LET k   == data[j].key
          due == DueEvents(j, dates[di])
      IN  IF due = {}
            THEN k \notin DOMAIN current_state
            ELSE /\ k \in DOMAIN current_state
                 /\ current_state[k][TRANS] = LatestStamp(due)
                 /\ current_state[k][STATUS] \in
                      {e[E_STATUS] : e \in {x \in due : x[E_DATE] = LatestStamp(due)}}

\* a checkpoint at which one issue has two due events of different times, the
\* later one in the course of the checkpoint's own day, and another issue has
\* none yet
C1_Witness ==
  /\ AggregationPoint
  /\ \E j, i \in 1..Len(data) :
       /\ DueEvents(i, dates[di]) = {}
       /\ IssueEntries(data[i].key, data[i].val).val # <<>>
       /\ Cardinality({e[E_DATE] : e \in DueEvents(j, dates[di])}) >= 2
       /\ DateOf(current_state[data[j].key][TRANS]) = dates[di]
       /\ current_state[data[j].key][TRANS] # Midnight(dates[di])

\* C2: an issue key present in the current-state table stays present: events
\* overwrite its entry and never remove it, so the snapshot of a later
\* checkpoint holds every key of an earlier one.
C2_KeysNeverRemoved ==
  [][(DOMAIN current_state) \subseteq (DOMAIN current_state')]_vars

\* the second checkpoint: one key kept from the first, one applied since
C2_Witness ==
  /\ AggregationPoint
  /\ di = 2
  /\ \E k1, k2 \in DOMAIN current_state :
       /\ DateOf(current_state[k1][TRANS]) <= dates[1]
       /\ DateOf(current_state[k2][TRANS]) > dates[1]

\* the scenario of C3: a priority of the list, one history event, into a
\* Closed status, later than the creation
ClosedOnce(param) ==
  /\ Truthy(param[PRIORITY])
  /\ param[PRIORITY] \in Range(priority_list)
  /\ HIST \in DOMAIN param
  /\ Len(param[HIST][TRANS]) = 1
  /\ param[HIST][NEW_][1] \in Range(GroupStatuses(status_map, CLOSED))
  /\ param[HIST][TRANS][1] > CreatedOf(param)

\* the other issues carry no priority (they are counted in no severity
\* bucket) and are not created before the j-th
OthersAside(j) ==
  \A i \in (1..Len(data)) \ {j} :
    /\ ~Truthy(data[i].val[PRIORITY])
    /\ CreatedOf(data[i].val) >= CreatedOf(data[j].val)

OpenOnly(v, p) ==
  /\ v[OPEN][p] = 1 /\ v[OPEN][TOTAL] = 1
  /\ v[CLOSED][p] = 0 /\ v[CLOSED][TOTAL] = 0

ClosedOnly(v, p) ==
  /\ v[CLOSED][p] = 1 /\ v[CLOSED][TOTAL] = 1
  /\ v[OPEN][p] = 0 /\ v[OPEN][TOTAL] = 0

NotCounted(v, p) ==
  /\ v[OPEN][p] = 0 /\ v[CLOSED][p] = 0 /\ v[TOTAL][p] = 0 /\ v[TOTAL][TOTAL] = 0

\* C3 as stated: with both data sources, for an issue of priority p created
\* at c whose only history event closes it at t > c, the series starts at the
\* first extraction weekday >= c, the issue is counted under Open/p at every
\* checkpoint d with date(c) <= d < date(t) and under Closed/p at every d >=
\* date(t).  (Stated for the runs whose last checkpoint is not before
\* date(t).)
C3_OpenThenClosedBothSources ==
  pc = "done" =>
    \A j \in 1..Len(data) :
      LET param == data[j].val
          c == CreatedOf(param)
          t == param[HIST][TRANS][1]
          p == param[PRIORITY]
      IN  (ClosedOnce(param) /\ OthersAside(j) /\ DateOf(t) <= LastDate) =>
            /\ Len(severity_data) >= 1
            /\ severity_data[1].key = FirstExtractionDayFrom(DateOf(c), extraction_day)
            /\ \A n \in 1..Len(severity_data) :
                 LET d == severity_data[n].key
                     v == severity_data[n].val
                 IN  /\ (DateOf(c) <= d /\ d < DateOf(t)) => OpenOnly(v, p)
                     /\ d >= DateOf(t) => ClosedOnly(v, p)

\* C3 amended: the statement holds for the Jira calculators, which queue the
\* creation (when the creation date lies after the extraction date of today
\* the series is that date alone and the issue is not counted).  The
\* ClearQuest calculators queue the history alone: the issue is counted in no
\* bucket at the checkpoints before date(t), and under Closed/p at every
\* checkpoint d >= date(t); when no other issue has a history the series
\* starts at the first extraction weekday >= t (or is the extraction date of
\* today alone when date(t) lies after it).
C3_OpenThenClosed ==
  pc = "done" =>
    \A j \in 1..Len(data) :
      LET param == data[j].val
          c == CreatedOf(param)
          t == param[HIST][TRANS][1]
          p == param[PRIORITY]
          first == IF IsJira THEN c ELSE t
      IN  (ClosedOnce(param) /\ OthersAside(j)) =>
            /\ Len(severity_data) >= 1
            /\ (IsJira \/ \A i \in (1..Len(data)) \ {j} : HIST \notin DOMAIN data[i].val)
                 => IF DateOf(first) <= LastDate
                      THEN severity_data[1].key =
                             FirstExtractionDayFrom(DateOf(first), extraction_day)
                      ELSE ODKeys(severity_data) = <<LastDate>>
            /\ \A n \in 1..Len(severity_data) :
                 LET d == severity_data[n].key
                     v == severity_data[n].val
                 IN  /\ d < DateOf(first) => NotCounted(v, p)
                     /\ (DateOf(first) <= d /\ d < DateOf(t)) => OpenOnly(v, p)
                     /\ d >= DateOf(t) => ClosedOnly(v, p)

\* a Jira run with the issue open at the first checkpoint, closed at the second
C3_Witness ==
  /\ pc = "done"
  /\ IsJira
  /\ Len(severity_data) = 2
  /\ \E j \in 1..Len(data) :
       /\ ClosedOnce(data[j].val)
       /\ OthersAside(j)
       /\ OpenOnly(severity_data[1].val, data[j].val[PRIORITY])
       /\ ClosedOnly(severity_data[2].val, data[j].val[PRIORITY])

\* the population loop is over: the queue holds every queued event
Populated == pc = "populate" /\ idx > Len(data)

\* the entries of the queue that belong to a key
QueuedOf(k) == {n \in 1..Len(queue) : queue[n][E_KEY] = k}

\* C4 as stated: for an issue without change history exactly one synthetic
\* event is queued, carrying the issue's current status at its creation
\* timestamp, and the issue appears with its current status in every snapshot
\* from the first checkpoint on or after its creation date.
C4_NoHistoryCurrentStatus ==
  \A j \in 1..Len(data) :
    LET k == data[j].key
        param == data[j].val
    IN  HIST \notin DOMAIN param =>
          /\ Populated =>
               /\ Cardinality(QueuedOf(k)) = 1
               /\ \A n \in QueuedOf(k) :
                    /\ queue[n][E_DATE] = CreatedOf(param)
                    /\ queue[n][E_STATUS] = param[STATUS]
          /\ (AggregationPoint /\ dates[di] >= DateOf(CreatedOf(param))) =>
               /\ k \in DOMAIN current_state
               /\ current_state[k][STATUS] = param[STATUS]

\* C4 amended: for a Jira issue without change history exactly one synthetic
\* event is queued, carrying the status 'New' (whatever the issue's current
\* status) at its creation timestamp, and the issue appears with status 'New'
\* in every snapshot from the first checkpoint on or after its creation date
\* (and in none before); a ClearQuest calculator queues nothing for an issue
\* without history, which appears in no snapshot.
C4_NoHistoryNewOrNothing ==
  \A j \in 1..Len(data) :
    LET k == data[j].key
        param == data[j].val
    IN  HIST \notin DOMAIN param =>
          IF IsJira
            THEN /\ Populated =>
                      /\ Cardinality(QueuedOf(k)) = 1
                      /\ \A n \in QueuedOf(k) :
                           /\ queue[n][E_DATE] = CreatedOf(param)
                           /\ queue[n][E_STATUS] = <<"New">>
                 /\ AggregationPoint =>
                      IF dates[di] >= DateOf(CreatedOf(param))
                        THEN /\ k \in DOMAIN current_state
                             /\ current_state[k][STATUS] = <<"New">>
                        ELSE k \notin DOMAIN current_state
            ELSE /\ Populated => QueuedOf(k) = {}
                 /\ k \notin DOMAIN current_state

\* a Jira issue without history whose current status is Open is in the
\* snapshot as New
C4_Witness ==
  /\ AggregationPoint
  /\ IsJira
  /\ \E j \in 1..Len(data) :
       /\ HIST \notin DOMAIN data[j].val
       /\ data[j].val[STATUS] = <<"Open">>
       /\ data[j].key \in DOMAIN current_state
       /\ current_state[data[j].key][STATUS] = <<"New">>

\* the status of the event of issue j pushed last among its due events of
\* the greatest timestamp
LastPushedStatus(j, d) ==
  LET evs == IssueEntries(data[j].key, data[j].val).val
      m   == LatestStamp(DueEvents(j, d))
      n   == SetMax({i \in 1..Len(evs) : evs[i][E_DATE] = m})
  IN  evs[n][E_STATUS]

\* C5: events of the same timestamp are applied in the order they were
\* pushed, whatever their other fields: of two same-timestamp events of one
\* issue, the status of the one pushed later is left in the snapshot.
C5_TiesInPushOrder ==
  AggregationPoint =>
    \A j \in 1..Len(data) :
      DueEvents(j, dates[di]) # {} =>
        /\ data[j].key \in DOMAIN current_state
        /\ current_state[data[j].key][STATUS] = LastPushedStatus(j, dates[di])

\* the issues of a table that carry a priority
WithPriority(cs) == {k \in DOMAIN cs : cs[k][PRIORITY] # None}

\* the issues of a table whose status resolves to a group
Resolved(cs) == {k \in DOMAIN cs : _get_status_group(cs[k][STATUS]) # None}

\* C10: an issue without priority is counted in no bucket of the severity
\* snapshot (each cell counts issues with a priority only, the Total cells
\* included), and is counted in the status snapshot under its group and
\* Total whenever its status resolves to a group.  The snapshots are those
\* of the aggregation points, where the reducers are called.
C10_NullPriorityOnlyInStatus ==
  AggregationPoint =>
  \A sev \in {_get_severity_data(current_state).val},
     sta \in {_get_status_data(current_state).val},
     grp \in {[k \in DOMAIN current_state |->
                _get_status_group(current_state[k][STATUS])]} :
  LET cs == current_state
  IN  /\ sev[TOTAL][TOTAL] = Cardinality(WithPriority(cs))
      /\ sev[OPEN][TOTAL] + sev[CLOSED][TOTAL] = Cardinality(WithPriority(cs))
      /\ \A x \in SeverityTypes : \A p \in Range(priority_list) :
           sev[x][p] <= Cardinality({k \in DOMAIN cs : cs[k][PRIORITY] = p})
      /\ sta[TOTAL][TOTAL] = Cardinality({k \in DOMAIN cs : grp[k] # None})
      /\ \A g \in Range(GroupNames(status_map)) :
           sta[TOTAL][g] = Cardinality({k \in DOMAIN cs : grp[k] = g})

\* a snapshot with an issue without priority, whose status resolves, beside
\* an issue with a priority
C10_Witness ==
  /\ AggregationPoint
  /\ \E k1, k2 \in DOMAIN current_state :
       /\ current_state[k1][PRIORITY] = None
       /\ _get_status_group(current_state[k1][STATUS]) # None
       /\ current_state[k2][PRIORITY] # None
  /\ _get_severity_data(current_state).val[TOTAL][TOTAL] = 1
  /\ _get_status_data(current_state).val[TOTAL][TOTAL] = 2

-----------------------------------------------------------------------------
(* Claims about the checkpoint date series (specification SpecDates) *)

SeriesReturned == pc \in {"ghd_datetimes", "ghd_dates"}

\* the calendar date of the j-th entry of the returned series
SeriesDate(j) == IF pc = "ghd_dates" THEN dates[j] ELSE DateOf(dates[j])

\* C6: the list returned by get_historical_dates is strictly ascending, any
\* two consecutive dates differ by exactly 7 days, and every date falls on the
\* configured extraction weekday, for every earliest date and extraction day.
C6_SeriesWeekly ==
  SeriesReturned =>
    /\ Len(dates) >= 1
    /\ \A j \in 1..Len(dates) : Weekday(SeriesDate(j)) = extraction_day
    /\ \A j \in 1..(Len(dates) - 1) :
         /\ dates[j] < dates[j + 1]
         /\ dates[j + 1] - dates[j] =
              (IF pc = "ghd_dates" THEN DaysPerWeek ELSE Days(DaysPerWeek))

C6_Witness ==
  /\ pc = "ghd_dates"
  /\ Len(dates) >= 3
  /\ Weekday(DateOf(today)) # extraction_day
  /\ Weekday(DateOf(earliest)) # extraction_day

\* C7 as stated: the last date of the series is the most recent extraction
\* weekday on or before today (never later than today, less than 7 days
\* before today).
C7_LastOnOrBeforeToday ==
  SeriesReturned =>
    /\ SeriesDate(Len(dates)) <= DateOf(today)
    /\ DateOf(today) - SeriesDate(Len(dates)) < DaysPerWeek

\* C7 amended: the last date of the series is the earliest extraction weekday
\* on or after today (never earlier than today, less than 7 days after today).
C7_LastOnOrAfterToday ==
  SeriesReturned =>
    /\ Weekday(SeriesDate(Len(dates))) = extraction_day
    /\ SeriesDate(Len(dates)) >= DateOf(today)
    /\ SeriesDate(Len(dates)) - DateOf(today) < DaysPerWeek

C7_Witness ==
  /\ SeriesReturned
  /\ SeriesDate(Len(dates)) > DateOf(today)
  /\ Len(dates) >= 2

\* C8 as stated: the first date of the series is the earliest extraction
\* weekday >= (earliest event date - 7 days), and is < earliest event date + 7.
C8_FirstFromWeekBefore ==
  SeriesReturned =>
    /\ SeriesDate(1) =
         FirstExtractionDayFrom(DateOf(earliest) - DaysPerWeek, extraction_day)
    /\ SeriesDate(1) < DateOf(earliest) + DaysPerWeek

\* C8 amended: when the earliest event date is not after the last date of the
\* series (the extraction day of today), the first date is the earliest
\* extraction weekday >= the earliest event date, hence < that date + 7 days;
\* otherwise the series is the last date alone.  In both cases the first date
\* is < earliest event date + 7 days.
C8_FirstFromEarliest ==
  SeriesReturned =>
    LET last == DateOf(get_extraction_date(today, extraction_day))
        e    == DateOf(earliest)
    IN  /\ SeriesDate(Len(dates)) = last
        /\ SeriesDate(1) < e + DaysPerWeek
        /\ e <= last => /\ SeriesDate(1) = FirstExtractionDayFrom(e, extraction_day)
                        /\ SeriesDate(1) >= e
        /\ e > last  => /\ Len(dates) = 1
                        /\ SeriesDate(1) = last

C8_Witness ==
  /\ SeriesReturned
  /\ Len(dates) >= 2
  /\ Weekday(DateOf(earliest)) = extraction_day
  /\ SeriesDate(1) = DateOf(earliest)

\* C9: for every earliest date and every current date passed to
\* _append_historical_date, the first date of the returned list is >= the
\* earliest date by calendar date, also when the earliest date lies after the
\* current date.
C9_FirstNotBeforeEarliest ==
  pc = "ahd" => DateOf(dates[1]) >= DateOf(earliest)

-----------------------------------------------------------------------------
(* Claims about the snapshot reducers (specification SpecReduce) *)

ReducerReturned == pc \in {"severity_data", "status_data"}

\* C11: the key set of every severity and status snapshot is fixed by the
\* configuration and no reducer call fails with a missing key, whatever the
\* priorities and projects of the issues: an issue whose priority is not in
\* the priority list, or whose project is not a configured Compliance
\* project, only fails to increment a count.
C11_ReducersNeverFail ==
  ReducerReturned =>
    /\ ~ret.err
    /\ pc = "severity_data" =>
         /\ DOMAIN ret.val = SeverityTypes
         /\ \A x \in SeverityTypes : DOMAIN ret.val[x] = SeverityColumns
    /\ pc = "status_data" =>
         /\ DOMAIN ret.val = StatusRows
         /\ \A x \in StatusRows : DOMAIN ret.val[x] = StatusColumns

\* a dict without one of its keys
Without(d, k) == [x \in (DOMAIN d) \ {k} |-> d[x]]

\* C12: an issue whose status belongs to no status group of the map
\* increments no cell of the status snapshot and raises no error: the result
\* of the status reducer (counts, or the error another issue raises) is the
\* result for the snapshot without that issue.
C12_UnmappedStatusNotCounted ==
  pc = "status_data" =>
    \A k \in DOMAIN current_state :
      _get_status_group(current_state[k][STATUS]) = None =>
        /\ ret = _get_status_data(Without(current_state, k))
        /\ (DOMAIN current_state = {k}) => (~ret.err /\ ret.val = ZeroStatus)

\* an issue of unmapped status beside a counted one
C12_Witness ==
  /\ pc = "status_data"
  /\ ~ret.err
  /\ ret.val[TOTAL][TOTAL] = 1
  /\ \E k1, k2 \in DOMAIN current_state :
       /\ current_state[k1][STATUS] = <<"Bogus">>
       /\ _get_status_group(current_state[k2][STATUS]) # None

-----------------------------------------------------------------------------
(* Claims about the age walk (specification SpecAge) *)

\* the status groups of the map (the group buckets, Overall excluded)
MapGroups == Range(GroupNames(status_map))

\* what one step of the walk adds to a bucket
AddedSum(p, g) == age_map'[p][g].sum - age_map[p][g].sum

AddedNum(p, g) == age_map'[p][g].num - age_map[p][g].num

RECURSIVE SumOver(_, _)
SumOver(f, S) ==
  IF S = {} THEN 0
  ELSE LET x == CHOOSE x \in S : TRUE IN f[x] + SumOver(f, S \ {x})

\* the step that walked issue idx to its end
AgedIssue == pc = "age_loop" /\ pc' = "age_loop" /\ idx' = idx + 1

\* C13: for every issue with a non-empty history, the durations the walk adds
\* to the [Overall][group] buckets of all status groups ([Overall][Overall]
\* excluded) sum to now - creation of the issue.
C13_GroupDurationsSumToAge ==
  [][(AgedIssue /\ HIST \in DOMAIN data[idx].val) =>
       SumOver([g \in MapGroups |-> AddedSum(OVERALL, g)], MapGroups)
         = today - CreatedOf(data[idx].val)]_vars

\* the last entry of the status history tuple list of an issue
LastEntry(param) == HistoryList(param)[Len(HistoryList(param))]

\* the Overall age of an issue as stated: to its last entry when that is
\* Closed, to the current date otherwise
StatedOverallAge(param) ==
  IF _get_status_group(LastEntry(param)[1]) = CLOSED
    THEN LastEntry(param)[2] - CreatedOf(param)
    ELSE today - CreatedOf(param)

\* C14: the Overall-age sample of an issue is (timestamp of its last
\* transition - creation) when the last status group the walk observed is
\* Closed and (now - creation) otherwise, for issues with and without
\* history and for reopened issues; it is added once to [Overall][Overall]
\* and once to [priority][Overall].
C14_OverallAgeSample ==
  [][AgedIssue =>
       LET param == data[idx].val
       IN  /\ AddedNum(OVERALL, OVERALL) = 1
           /\ AddedSum(OVERALL, OVERALL) = StatedOverallAge(param)
           /\ Truthy(param[PRIORITY]) =>
                /\ AddedNum(param[PRIORITY], OVERALL) = 1
                /\ AddedSum(param[PRIORITY], OVERALL) = StatedOverallAge(param)]_vars

\* an issue closed after its creation and before now, walked to its end
C14_Witness ==
  /\ pc = "age_loop"
  /\ idx = 2
  /\ HIST \in DOMAIN data[1].val
  /\ LastEntry(data[1].val)[1] = <<"Closed">>
  /\ age_map[OVERALL][OVERALL].num = 1
  /\ age_map[OVERALL][OVERALL].sum = LastEntry(data[1].val)[2] - CreatedOf(data[1].val)
  /\ age_map[OVERALL][OVERALL].sum > 0
  /\ age_map[OVERALL][OVERALL].sum < today - CreatedOf(data[1].val)

\* C15: after _get_average_age_data over any population the item count of
\* [Overall][Overall] is the number of issues, whatever their priority,
\* status or history.
C15_OneOverallSamplePerIssue ==
  pc \in {"done", "KeyError"} =>
    /\ pc = "done"
    /\ age_map[OVERALL][OVERALL].num = Len(data)

\* the status groups of the entries of the history list, in order
GroupsOf(param) ==
  [j \in 1..Len(HistoryList(param)) |-> _get_status_group(HistoryList(param)[j][1])]

\* the maximal runs of consecutive entries of one group
RunStarts(groups) ==
  {j \in 1..Len(groups) : j = 1 \/ groups[j - 1] # groups[j]}

\* the maximal runs of group g
RunsOf(groups, g) == Cardinality({j \in RunStarts(groups) : groups[j] = g})

\* the samples one step adds to the [Overall][group] buckets
AddedGroupSamples == SumOver([g \in MapGroups |-> AddedNum(OVERALL, g)], MapGroups)

\* C16 as stated: every issue contributes to the [Overall][group] buckets
\* exactly N samples, N the number of maximal runs of same-group statuses of
\* its transition list, and N >= 1.
C16_SamplesAreRuns ==
  [][AgedIssue =>
       /\ AddedGroupSamples = Cardinality(RunStarts(GroupsOf(data[idx].val)))
       /\ AddedGroupSamples >= 1]_vars

\* C16: an issue whose priority is null or in the priority list contributes
\* to every [Overall][group] bucket one sample per maximal run of statuses
\* of that group; runs of statuses of no group contribute none, so that the
\* number of samples can be 0; an issue of any other priority contributes
\* none, its walk ends with KeyError, and so does the walk of a record
\* without a Status field, which leaves the age map as it was.
C16_SamplesAreMappedRuns ==
  [][(pc = "age_loop" /\ idx <= Len(data)) =>
       LET param == data[idx].val
       IN  IF STATUS \notin DOMAIN param
             THEN /\ pc' = "KeyError"
                  /\ age_map' = age_map
           ELSE IF param[PRIORITY] = None \/ param[PRIORITY] \in Range(priority_list)
             THEN /\ AgedIssue
                  /\ \A g \in MapGroups :
                       AddedNum(OVERALL, g) = RunsOf(GroupsOf(param), g)
             ELSE /\ pc' = "KeyError"
                  /\ \A g \in MapGroups : AddedNum(OVERALL, g) = 0]_vars

\* an issue that went from a group of the map to a status of no group
C16_Witness ==
  /\ pc = "age_loop"
  /\ idx = 2
  /\ GroupsOf(data[1].val) = <<"New", "Open", None>>
  /\ age_map[OVERALL]["New"].num = 1
  /\ age_map[OVERALL]["Open"].num = 1
  /\ \A g \in MapGroups \ {"New", "Open"} : age_map[OVERALL][g].num = 0

-----------------------------------------------------------------------------
(* Claims about AverageAge.combine (specification SpecAverage) *)

\* two accumulators of the same sum and count
SameState(x, y) == x.sum = y.sum /\ x.num = y.num

\* C17: AverageAge.combine is commutative and associative on the accumulated
\* state: a combined with b has the sum and the count of b combined with a,
\* and (a with b) with c has the sum, the count and the average of a with
\* (b with c).
C17_CombineCommutesAndAssociates ==
  /\ pc = "a+b" =>
       /\ SameState(ret, combine(args[2], args[1], args[4]))
       /\ ret.sum = args[1].sum + args[2].sum
       /\ ret.num = args[1].num + args[2].num
  /\ pc = "b+a" => SameState(ret, combine(args[1], args[2], args[4]))
  /\ pc = "(a+b)+c" =>
       ret = combine(args[1], combine(args[2], args[3], args[4]), args[4])
  /\ pc = "a+(b+c)" =>
       ret = combine(combine(args[1], args[2], args[4]), args[3], args[4])

\* three accumulators of different averages combined, the average rounded up
C17_Witness ==
  /\ pc = "(a+b)+c"
  /\ args[4]
  /\ args[1].average # args[2].average
  /\ args[2].average # args[3].average
  /\ args[1].num # args[2].num
  /\ ret.num = args[1].num + args[2].num + args[3].num
  /\ 10 * ret.sum < ret.average * TicksPerDay * ret.num

-----------------------------------------------------------------------------
(* Claims about combine_age_data (specification SpecCombine) *)

\* the cells of the age maps of a sequence of inputs
InputCells(values) ==
  UNION {{<<p, g>> : g \in DOMAIN values[j][IssueType][p]} :
           <<j, p>> \in {jp \in (1..Len(values)) \X {OVERALL} :
                           jp[2] \in DOMAIN values[jp[1]][IssueType]}}

\* the inputs that hold cell <<p, g>>
Holding(values, p, g) ==
  {j \in 1..Len(values) : p \in DOMAIN values[j][IssueType]
                          /\ g \in DOMAIN values[j][IssueType][p]}

\* two tables of the same cells, each of the same sum and count
SameCells(x, y) ==
  /\ DOMAIN x = DOMAIN y
  /\ \A p \in DOMAIN x :
       /\ DOMAIN x[p] = DOMAIN y[p]
       /\ \A g \in DOMAIN x[p] : SameState(x[p][g], y[p][g])

\* C18: combine_age_data returns for every priority and status group an
\* accumulator whose sum is the sum of the input maps' sums and whose count
\* is the sum of their counts; for a single age map it returns that map's
\* finalized values; applied in two levels (projects into groups, groups
\* into one) it returns the sums and counts of one application over all
\* the projects.
C18_CombineAgeDataSums ==
  /\ pc = "combined" =>
       /\ \A p \in DOMAIN ret : \A g \in DOMAIN ret[p] : <<p, g>> \in InputCells(args)
       /\ \A c \in InputCells(args) :
            /\ ret[c[1]][c[2]].sum =
                 SumOver([j \in Holding(args, c[1], c[2]) |->
                            args[j][IssueType][c[1]][c[2]].sum],
                         Holding(args, c[1], c[2]))
            /\ ret[c[1]][c[2]].num =
                 SumOver([j \in Holding(args, c[1], c[2]) |->
                            args[j][IssueType][c[1]][c[2]].num],
                         Holding(args, c[1], c[2]))
       /\ Len(args) = 1 => ret = args[1][IssueType]
  /\ pc = "grouped" =>
       /\ Len(files) = 3
       /\ \A j \in 1..Len(issue_types) :
            SameCells(files[3][issue_types[j]],
                      combine_age_data(args, issue_types[j]))
       /\ \A j \in 1..Len(issue_types) :
            /\ SameCells(files[1][issue_types[j]],
                         combine_age_data(SubSeq(args, 1, idx), issue_types[j]))
            /\ SameCells(files[3][issue_types[j]],
                         combine_age_data(<<files[1], files[2]>>, issue_types[j]))

\* three projects, two of them in the first group, with a Defect cell all
\* three hold: the group tables and the overall table are written
C18_Witness ==
  /\ pc = "grouped"
  /\ ret = None
  /\ Len(args) = 3
  /\ idx = 2
  /\ Len(files) = 3
  /\ Holding(args, OVERALL, OVERALL) = {1, 2, 3}
  /\ \A j \in 1..3 : args[j][IssueType][OVERALL][OVERALL].num > 0
  /\ files[3][IssueType][OVERALL][OVERALL].num > 3
  /\ files[3][IssueType][OVERALL][OVERALL].average > 0
  /\ files[3][CR][OVERALL][OVERALL].num = 3

-----------------------------------------------------------------------------
(* Claims about calculate and its keyword (specification SpecFlag) *)

\* calculate is over: it returned or raised
Over == pc \in {"done", "KeyError"}

\* no issue of the population queues an event
NoEventQueued ==
  \A j \in 1..Len(data) : IssueEntries(data[j].key, data[j].val).val = <<>>

\* an age map whose accumulators all have sum 0, count 0 and average 0
ZeroedAgeMap(am) ==
  /\ DOMAIN am = AgePriorities
  /\ \A p \in AgePriorities :
       /\ DOMAIN am[p] = AgeGroups
       /\ \A g \in AgeGroups : am[p][g] = [sum |-> 0, num |-> 0, average |-> 0]

\* C19 as stated: for an empty population, or one in which no event is
\* queued, calculate (called without the keyword) raises no error, returns
\* an empty severity series and an empty status series, and an age map of
\* which every accumulator has sum 0, count 0 and average 0.
C19_NoEventZeroedAgeMap ==
  (Over /\ NoEventQueued /\ kwargs = "absent") =>
    /\ pc = "done"
    /\ severity_data = <<>>
    /\ status_data = <<>>
    /\ ZeroedAgeMap(age_map)

\* C19: for an empty population calculate raises no error and returns empty
\* series and a zeroed age map (no age map when a Jira calculator is told
\* age_data=False); for a non-empty population in which no event is queued
\* the series are empty too, but the age walk visits the issues as in any
\* run: calculate returns the age map of _get_average_age_data, or raises
\* its KeyError.
C19_EmptyPopulationZeroedAgeMap ==
  (Over /\ NoEventQueued) =>
    /\ severity_data = <<>>
    /\ status_data = <<>>
    /\ IF IsJira /\ kwargs = "False"
         THEN pc = "done" /\ age_map = NoDict
       ELSE IF data = <<>>
         THEN pc = "done" /\ ZeroedAgeMap(age_map)
       ELSE IF _get_average_age_data(DataValues).err
         THEN pc = "KeyError"
       ELSE /\ pc = "done"
            /\ age_map = _get_average_age_data(DataValues).val
            /\ age_map[OVERALL][OVERALL].num = Len(data)

\* calculate returned for the empty population
C19_Witness ==
  /\ pc = "done"
  /\ data = <<>>
  /\ kwargs = "absent"
  /\ ZeroedAgeMap(age_map)

\* C20 as stated: every calculator honours the keyword: with age_data=False
\* no age map is computed or returned, and the series are those of a run
\* with the keyword on.
C20_FlagOffNoAgeMapAnywhere ==
  (Over /\ kwargs = "False") =>
    /\ pc = "done" => age_map = NoDict
    /\ severity_data = CalculateSeries(data).severity_data
    /\ status_data = CalculateSeries(data).status_data

\* C20: JiraGTCalculator.calculate honours the keyword: with age_data=False
\* it computes no age data and returns None for the age map; the ClearQuest
\* calculate takes no notice of the keyword and computes the age map in every
\* run; in both, the series (and whether a reducer raises) are the same
\* whatever the keyword.
C20_FlagHonouredByJiraOnly ==
  Over =>
    /\ severity_data = CalculateSeries(data).severity_data
    /\ status_data = CalculateSeries(data).status_data
    /\ IF CalculateSeries(data).err THEN pc = "KeyError"
       ELSE IF IsJira /\ kwargs = "False" THEN pc = "done" /\ age_map = NoDict
       ELSE IF _get_average_age_data(DataValues).err THEN pc = "KeyError"
       ELSE pc = "done" /\ age_map = _get_average_age_data(DataValues).val

\* a Jira run with age_data=False that returned two checkpoints and no age map
C20_Witness ==
  /\ pc = "done"
  /\ calc = "jira"
  /\ kwargs = "False"
  /\ Len(severity_data) = 2
  /\ Len(status_data) = 2
  /\ Len(data) = 2
  /\ age_map = NoDict

-----------------------------------------------------------------------------
(* C21 *)

RECURSIVE Flatten(_)
Flatten(seqs) == IF seqs = <<>> THEN <<>> ELSE Head(seqs) \o Flatten(Tail(seqs))

\* "G includes s1, ..., s(n-1), & sn": a comma after every status but the last
CommaBeforeAmpersand(group, sl) ==
  <<group, " ", "includes", " ">>
    \o Flatten([j \in 1..Len(sl) |->
                  IF j < Len(sl) THEN sl[j] \o <<",", " ">>
                  ELSE <<"&", " ">> \o sl[j]])

DescReturned == pc = "get_status_desc"

\* C21: get_status_desc describes a group G of three or more statuses
\* s1..sn as "G includes s1, ..., s(n-1), & sn": a comma after every status
\* but the last, then an ampersand before the last, "G includes A, B, & C".
C21_CommaBeforeAmpersand ==
  DescReturned =>
    \A j \in 1..Len(status_map) :
      Len(status_map[j].statuses) >= 3 =>
        ret[j] = <<status_map[j].group,
                   CommaBeforeAmpersand(status_map[j].group, status_map[j].statuses)>>

-----------------------------------------------------------------------------
(* C22 *)

\* the calculator has no status-group definition
NoStatusGroups == status_map = <<>>

\* C22 as stated: a calculator without a status-group definition fails at
\* construction or at first use; it never continues with an empty status map
\* to store a snapshot or to return results.
C22_NoResultsWithoutStatusGroups ==
  NoStatusGroups =>
    /\ pc # "done"
    /\ severity_data = <<>>
    /\ status_data = <<>>

-----------------------------------------------------------------------------
(* C23 *)

Mutated == pc \in {"updated", "combined"}

\* the average that the sum and the count of an accumulator stand for
AverageFor(a) ==
  IF a.num > 0 THEN RoundTenths(a.sum, a.num) ELSE 0

\* C23 as stated: update and combine never recompute the average; after
\* either mutation the average has the value it had before.
C23_MutationKeepsAverage ==
  Mutated => ret.average = args[1].average

\* C23: update and combine recompute the stored average themselves unless
\* the caller passes update_avg=False: with the flag true (the default) the
\* average after the mutation is the one of the new sum and count; with the
\* flag false the average keeps the value it had before, until
\* calculate_average is called, which sets it to the one of the sum and count.
C23_MutationRecomputesUnlessToldNot ==
  /\ Mutated =>
       /\ ret.num = args[1].num + (IF pc = "updated" THEN 1 ELSE args[2].num)
       /\ ret.sum = args[1].sum + args[2].sum
       /\ ret.average = IF args[4] THEN AverageFor(ret) ELSE args[1].average
  /\ pc = "calculate_average" => ret.average = AverageFor(ret)

\* an update with update_avg=False left an average that is not the one of
\* the new sum and count
C23_Witness ==
  /\ pc = "updated"
  /\ ~args[4]
  /\ ret.average = args[1].average
  /\ ret.average # AverageFor(ret)

-----------------------------------------------------------------------------
(* C24 *)

\* the timestamp at which the run of entries that starts at entry j began:
\* the creation for the first run, the date of the entry otherwise
RunBegin(param, j) ==
  IF j = 1 THEN CreatedOf(param) ELSE HistoryList(param)[j][2]

\* the timestamp at which the run that starts at entry j ended: the start of
\* the next run, the current date for the last run
RunEnd(param, j) ==
  LET later == {i \in RunStarts(GroupsOf(param)) : i > j}
  IN  IF later = {} THEN today
      ELSE HistoryList(param)[CHOOSE i \in later : \A k \in later : i <= k][2]

\* the start of the last run of same-group entries
LastRun(param) == SetMax(RunStarts(GroupsOf(param)))

\* C24: the final contribution of the walk of an issue goes to the group
\* observed last, with the duration from the start of the last run of
\* entries of that group to now: with the contributions of the earlier runs
\* of the group, [Overall][group] grows by the durations of all its runs, the
\* last of them counted from its start and not from the last history event.
C24_FinalContributionFromGroupEntry ==
  [][AgedIssue =>
       LET param  == data[idx].val
           groups == GroupsOf(param)
           g      == groups[Len(groups)]
           runs   == {j \in RunStarts(groups) : groups[j] = g}
       IN  g \in MapGroups =>
             AddedSum(OVERALL, g)
               = SumOver([j \in runs |-> RunEnd(param, j) - RunBegin(param, j)], runs)]_vars

-----------------------------------------------------------------------------
(* C25 *)

\* every issue of the population has a priority of the priority list
AllPrioritiesListed ==
  \A j \in 1..Len(data) : data[j].val[PRIORITY] \in Range(priority_list)

\* C25: over a population in which every issue has a priority of the
\* configured priority list, at every point of _get_average_age_data and in
\* the age map it returns, for every column g (each status group and
\* Overall) the sum and the count of [Overall][g] are the sums, over the
\* priorities p, of the sums and the counts of [p][g]; the walk of such a
\* population ends with KeyError, and returns nothing, only at a record
\* without a Status field.
C25_OverallRowSumsPriorityRows ==
  AllPrioritiesListed =>
    /\ pc \in {"age_loop", "done", "KeyError"}
    /\ pc = "KeyError" => STATUS \notin DOMAIN data[idx].val
    /\ \A g \in AgeGroups :
         /\ age_map[OVERALL][g].sum
              = SumOver([p \in Range(priority_list) |-> age_map[p][g].sum],
                        Range(priority_list))
         /\ age_map[OVERALL][g].num
              = SumOver([p \in Range(priority_list) |-> age_map[p][g].num],
                        Range(priority_list))

\* the age map returned for a Major issue with history and a Minor issue:
\* the Overall row holds the samples of both priority rows
C25_Witness ==
  /\ pc = "done"
  /\ Len(data) = 2
  /\ data[1].val[PRIORITY] = "Major"
  /\ data[2].val[PRIORITY] = "Minor"
  /\ HIST \in DOMAIN data[1].val
  /\ age_map["Major"][OVERALL].num = 1
  /\ age_map["Minor"][OVERALL].num = 1
  /\ age_map[OVERALL][OVERALL].num = 2
  /\ age_map["Major"][OVERALL].sum > 0
  /\ age_map["Minor"][OVERALL].sum > 0
  /\ age_map[OVERALL]["Open"].num >= 2

-----------------------------------------------------------------------------
(* C26 *)

\* the words of a status, in order: what is left of it when leading,
\* trailing and repeated whitespace are disregarded
WordsOf(status) == [j \in 1..Len(Split(status)) |-> Split(status)[j]]

\* the groups, by position in the map, whose list holds the words of the
\* input separated by single spaces
GroupsHolding(status) ==
  {j \in 1..Len(status_map) :
     \E k \in 1..Len(status_map[j].statuses) :
       status_map[j].statuses[k]
         = JoinWith(<<" ">>, [i \in 1..Len(WordsOf(status)) |-> <<WordsOf(status)[i]>>])}

\* C26: _get_status_group returns the first group, in map order, whose
\* status list holds the whitespace-normalized input, and None when no group
\* does; every input that differs from the given one only in leading,
\* trailing or repeated internal whitespace resolves to the same result.
C26_FirstGroupOfNormalizedStatus ==
  pc = "_get_status_group" =>
    /\ IF GroupsHolding(args) = {} THEN ret = None
       ELSE ret = status_map[CHOOSE j \in GroupsHolding(args) :
                                \A k \in GroupsHolding(args) : j <= k].group
    /\ \A other \in StatusInputs(status_map) :
         WordsOf(other) = WordsOf(args) => _get_status_group(other) = ret

\* a status written with padding and a tab between its words resolved to its
\* group, and so did the status of the same words in normalized form
C26_Witness ==
  /\ pc = "_get_status_group"
  /\ calc = "dcr"
  /\ args = <<"\t", " ", "Review", "\n", "\t", "Complete", " ">>
  /\ ret = "In Review"
  /\ _get_status_group(W2("Review", "Complete")) = "In Review"

-----------------------------------------------------------------------------
(* C27 *)

\* the issues of the snapshot that the reducer of the calculator counts: the
\* SEPTA reducers leave out the hardware and security components
CountedIssues ==
  {k \in DOMAIN current_state :
     calc = "septa" =>
       current_state[k][COMPS] \notin {"Hardware", "HW Board", "Security"}}

\* C27: in every severity snapshot that the base, the SEPTA and the
\* Compliance reducer return, for every column c (each priority and Total)
\* Total[c] = Open[c] + Closed[c]; for every row r of Total, Open and Closed,
\* r[Total] is the sum of r[p] over the priorities p; and Total[Total] is the
\* number of counted issues with a priority.
C27_SeverityTotalsAddUp ==
  (pc = "severity_data" /\ ~ret.err) =>
    /\ \A c \in SeverityColumns :
         ret.val[TOTAL][c] = ret.val[OPEN][c] + ret.val[CLOSED][c]
    /\ \A r \in SeverityTypes :
         ret.val[r][TOTAL]
           = SumOver([p \in Range(priority_list) |-> ret.val[r][p]],
                     Range(priority_list))
    /\ ret.val[TOTAL][TOTAL]
         = Cardinality({k \in CountedIssues : current_state[k][PRIORITY] # None})

\* a SEPTA severity snapshot of a hardware issue, which is left out, and of a
\* resolved Major issue, which is counted as closed
C27_Witness ==
  /\ pc = "severity_data"
  /\ calc = "septa"
  /\ ~ret.err
  /\ Cardinality(DOMAIN current_state) = 2
  /\ current_state["K1"][COMPS] = "Hardware"
  /\ current_state["K1"][PRIORITY] = "Blocker"
  /\ current_state["K2"][COMPS] = "GUI"
  /\ current_state["K2"][STATUS] = <<"Resolved">>
  /\ current_state["K2"][PRIORITY] = "Major"
  /\ ret.val[TOTAL][TOTAL] = 1
  /\ ret.val[CLOSED]["Major"] = 1
  /\ ret.val[OPEN][TOTAL] = 0

-----------------------------------------------------------------------------
(* C28 *)

StatusReturned == pc = "status_data" /\ ~ret.err

\* the issues among S whose status resolves to group g
InGroup(S, g) == {k \in S : _get_status_group(current_state[k][STATUS]) = g}

\* the issues among S whose status resolves to a group
Resolving(S) == {k \in S : _get_status_group(current_state[k][STATUS]) # None}

\* C28 as stated: in every status snapshot the Total cell of the Total
\* dimension is the sum of the cells of the status groups of that dimension
\* and the number of snapshot issues whose status resolves to a group; the
\* cell of a group counts the snapshot issues of that group, so each issue
\* is in one cell at most.
C28_TotalCountsResolvedSnapshotIssues ==
  StatusReturned =>
    /\ ret.val[TOTAL][TOTAL]
         = SumOver([g \in MapGroups |-> ret.val[TOTAL][g]], MapGroups)
    /\ ret.val[TOTAL][TOTAL] = Cardinality(Resolving(DOMAIN current_state))
    /\ \A g \in MapGroups :
         ret.val[TOTAL][g] = Cardinality(InGroup(DOMAIN current_state, g))

\* C28, amended: in every status snapshot the Total cell of the Total
\* dimension is the sum of the cells of the status groups of that dimension
\* and the number of the issues the reducer counts whose status resolves to
\* a group; the cell of a group counts the counted issues of that group, so
\* each issue is in one cell at most. The counted issues are every snapshot
\* issue in Calculator._get_status_data and in the Compliance reducer, and
\* in the SEPTA reducer the snapshot issues of no hardware, hw or security
\* component.
C28_TotalCountsResolvedCountedIssues ==
  StatusReturned =>
    /\ ret.val[TOTAL][TOTAL]
         = SumOver([g \in MapGroups |-> ret.val[TOTAL][g]], MapGroups)
    /\ ret.val[TOTAL][TOTAL] = Cardinality(Resolving(CountedIssues))
    /\ \A g \in MapGroups :
         ret.val[TOTAL][g] = Cardinality(InGroup(CountedIssues, g))

\* a status snapshot of the SEPTA reducer of two issues whose status resolves
\* to a group: the hardware issue is left out, the other is counted once
C28_Witness ==
  /\ StatusReturned
  /\ calc = "septa"
  /\ Cardinality(DOMAIN current_state) = 2
  /\ current_state["K1"][COMPS] = "Hardware"
  /\ current_state["K2"][COMPS] = "GUI"
  /\ Resolving(DOMAIN current_state) = {"K1", "K2"}
  /\ ret.val[TOTAL][_get_status_group(current_state["K2"][STATUS])] = 1
  /\ ret.val[TOTAL][TOTAL] = 1

-----------------------------------------------------------------------------
(* C29 *)

\* the series keeps the entries it holds and grows by at most one entry,
\* stored under the checkpoint being processed
Extended(series, series_next, snapshot) ==
  /\ Len(series_next) \in {Len(series), Len(series) + 1}
  /\ \A j \in 1..Len(series) : series_next[j] = series[j]
  /\ Len(series_next) = Len(series) + 1 =>
       /\ pc = "replay"
       /\ series_next[Len(series_next)] = [key |-> dates[di], val |-> snapshot]

\* C29: the replay of later checkpoints never changes a severity or status
\* snapshot that is stored: every step of calculate leaves the stored entries
\* as they are, an entry is stored under the checkpoint d being processed as
\* the aggregate of the current-state table of that moment, and when
\* calculate returns both series have the checkpoint dates, in ascending
\* order, as their keys.
C29_StoredSnapshotsAreFrozen ==
  [][/\ Extended(severity_data, severity_data',
                  _get_severity_data(current_state).val)
     /\ Extended(status_data, status_data', _get_status_data(current_state).val)
     /\ pc' = "done" =>
          /\ ODKeys(severity_data') = ODKeys(status_data')
          /\ \A i, j \in 1..Len(severity_data') :
               i < j => severity_data'[i].key < severity_data'[j].key
          /\ Len(severity_data') > 0 => ODKeys(severity_data') = dates]_vars

\* calculate returned two checkpoints whose snapshots differ: the table was
\* changed after the first one was stored
C29_Witness ==
  /\ pc = "done"
  /\ Len(severity_data) = 2
  /\ Len(status_data) = 2
  /\ severity_data[1].val # severity_data[2].val
  /\ status_data[1].val # status_data[2].val
  /\ severity_data[1].key < severity_data[2].key

-----------------------------------------------------------------------------
(* C30 *)

\* every accumulator of the age map has the average of its sum and count
Consistent(am) ==
  \A p \in DOMAIN am : \A g \in DOMAIN am[p] : am[p][g].average = AverageFor(am[p][g])

\* C30: every accumulator of an age map that _get_average_age_data or
\* combine_age_data returns has the average of its state: sum in days over
\* count, rounded to one decimal, when the count is positive, and 0 when the
\* count is 0; none keeps the average that the updates made with
\* update_avg=False left behind.
C30_ReturnedAveragesConsistent ==
  /\ pc = "done" => Consistent(age_map)
  /\ pc = "combined" => Consistent(ret)

\* the age map of two issues was returned and combined with that of the
\* other project: the Overall accumulator holds three issues and an average
\* that is neither that of the project nor that of the other project
C30_Witness ==
  /\ pc = "combined"
  /\ Len(data) = 2
  /\ age_map[OVERALL][OVERALL].num = 2
  /\ age_map[OVERALL][OVERALL].average > 0
  /\ ret[OVERALL][OVERALL].num = 3
  /\ ret[OVERALL][OVERALL].average # age_map[OVERALL][OVERALL].average
  /\ ret[OVERALL][OVERALL].average # OtherAgeMap[OVERALL][OVERALL].average
  /\ ret[OVERALL][OVERALL].average = AverageFor(ret[OVERALL][OVERALL])

=============================================================================
